---- MODULE Spec2Model ----
(***************************************************************************)
(* Certification-portal backend (src/main.py, src/app/models.py,           *)
(* src/app/db.py): the request handlers as actions over the tables of       *)
(* models.py.  Rows of a table are kept in a sequence; the primary key of   *)
(* the n-th row is the generated id ExamId(n), QuestionId(n), ...          *)
(* Columns no handler branches on (title, language, names, time_allowed,   *)
(* started_at, created_at) are left out.                                   *)
(***************************************************************************)
EXTENDS Integers, Sequences, FiniteSets, TLC

\* ------------------------------------------------------------- bounds
MaxExams == 2            \* rows of exams
MaxQuestions == 3        \* largest question_count asked of create_exam by the exam-taking specifications
MaxBlocks == 2           \* most {...} blocks in one generator text
MaxTarget == 25          \* largest question_count asked of create_exam by the generation specification
MaxCandidateExams == 2   \* rows of candidate_exams
MaxAssignments == 2      \* rows of exam_assignments
MaxItems == 2            \* longest answers list of one bulk-save call
MaxElapsed == 1          \* largest time_elapsed a client reports
MaxNow == 1              \* latest reading of datetime.utcnow()
MaxRequests == 2         \* start requests in flight at once
NumChoices == 3          \* options per generated question

\* ------------------------------------------------- program constants
BATCH_SIZE == 10
MAX_ATTEMPTS == 30

None == "None"

\* ------------------------------------------------------------ inputs
AdminEmail == "root@nmkglobalinc.com"
BossEmail == "boss@nmkglobalinc.com"
AliceEmail == "alice@x.com"
AliceRaw == " Alice@X.com "

\* the bearer tokens get_current_user accepts: {sub, email}
Tokens ==
  { [sub |-> "sub-root", email |-> AdminEmail],
    [sub |-> "sub-alice", email |-> AliceEmail] }

AliceToken == [sub |-> "sub-alice", email |-> AliceEmail]

\* the token of a second holder of an admin-domain email
BossToken == [sub |-> "sub-boss", email |-> BossEmail]

\* candidate_emails entries as typed by the admin
RawEmails == {AdminEmail, AliceEmail, AliceRaw}

\* email.strip().lower()
Normalize(email) == IF email = AliceRaw THEN AliceEmail ELSE email

\* email.endswith("@nmkglobalinc.com")
EndsWithAdminDomain(email) == email \in {AdminEmail, BossEmail}

\* gen_id(): the primary key given to the n-th row of a table
ExamId(n) == "e" \o ToString(n)
QuestionId(n) == "q" \o ToString(n)
CandidateExamId(n) == "c" \o ToString(n)

ExamIds == { ExamId(n) : n \in 1..MaxExams }

\* ------------------------------------------------------------- state
VARIABLES
  users,            \* table users: set of [id, email, is_admin]
  exams,            \* table exams: Seq of [is_active, question_count, created_by]
  questions,        \* table questions: Seq of [exam_id, choices, answer_index]
  exam_assignments, \* table exam_assignments: Seq of [exam_id, candidate_email, assigned_by, status]
  candidate_exams,  \* table candidate_exams: Seq of attempt rows
  resp,             \* the response of the last request
  lastStarted,      \* per caller email: the attempt id the caller's last successful start returned
                    \* and the exam it asked for; reset by the caller's next successful submit
  pending,          \* start requests between their lookup and their commit
  raced             \* emails of the callers one of whose starts inserted after it was overtaken

db == <<users, exams, questions, exam_assignments, candidate_exams>>
vars == <<users, exams, questions, exam_assignments, candidate_exams, resp, lastStarted, pending, raced>>

Emails == { t.email : t \in Tokens }

NotStarted == [id |-> None, asked |-> None]

\* a request slot with no start request in it
Idle == [busy |-> FALSE, who |-> None, user_id |-> None, exam_id |-> None, asg |-> 0,
         overtaken |-> FALSE]

\* the calls a request made to the collaborators: the question generator
\* (requests.get), the identity provider (admin_create_user) and the
\* notification sender (send_exam_assignment_email), each in call order, and
\* what became of the writes create_exam asked of the database
NoCalls == [generator |-> << >>, cognito |-> << >>, mail |-> << >>, writes |-> "none"]

\* the counts in the body of assign_exam's answer, and the number of questions
\* named in the detail of create_exam's "Could only generate ..." (-1: none)
NoBody == [assigned_count |-> 0, emailed_count |-> 0, created_users |-> 0, partial |-> -1]

\* the payload of an admin request: exam_data.question_count of create_exam,
\* exam_id and payload.candidate_emails of assign_exam
NoArg ==
  [question_count |-> 0, exam_id |-> None, candidate_emails |-> << >>,
   answers_payload |-> << >>]

\* a request and its answer: the handler, the email of the caller's token,
\* the HTTP status, the id in the body, if any, the request's payload, the
\* calls made to the collaborators while it was served, and the counts in
\* the body
Reply(op, who, code, id, arg, calls, body) ==
  [op |-> op, who |-> who, code |-> code, id |-> id, arg |-> arg,
   calls |-> calls, body |-> body]

\* the answer of a request without payload that calls no collaborator and
\* reports no counts
Response(op, who, code, id) == Reply(op, who, code, id, NoArg, NoCalls, NoBody)

Init ==
  /\ users = {}
  /\ exams = << >>
  /\ questions = << >>
  /\ exam_assignments = << >>
  /\ candidate_exams = << >>
  /\ resp = Response("none", None, 0, None)
  /\ lastStarted = [e \in Emails |-> NotStarted]
  /\ pending = [ r \in 1..MaxRequests |-> Idle ]
  /\ raced = {}

\* db.query(models.User).filter(models.User.email == email): the matching rows
UsersByEmail(email) == { u \in users : u.email = email }

\* ---------------------------------------------------------- sync_user
sync_user(tok) ==
  /\ IF UsersByEmail(tok.email) = {}
       THEN users' = users \cup
              { [id |-> tok.sub, email |-> tok.email,
                 is_admin |-> EndsWithAdminDomain(tok.email)] }
       ELSE users' = users
  /\ resp' = Response("sync_user", tok.email, 200, None)
  /\ UNCHANGED <<exams, questions, exam_assignments, candidate_exams, lastStarted, pending, raced>>

\* -------------------------------------------------- parse_llm_response
\* A decoded JSON value: a key that is missing or null, a string, a number,
\* a boolean or a list of values.
NoneVal == [type |-> "none", value |-> None]
StrVal(s) == [type |-> "str", value |-> s]
IntVal(n) == [type |-> "int", value |-> n]
BoolVal(b) == [type |-> "bool", value |-> b]
ListVal(seq) == [type |-> "list", value |-> seq]

\* Python truth: `not v` is false
Truthy(v) ==
  CASE v.type = "none" -> FALSE
    [] v.type = "str" -> v.value # ""
    [] v.type = "int" -> v.value # 0
    [] v.type = "bool" -> v.value
    [] v.type = "list" -> v.value # << >>

\* s.strip() on the strings of the texts below
Strip(s) == IF s = " A " THEN "A" ELSE s

\* the characters of a string of the texts below
Chars(s) ==
  IF s = "" THEN << >>
  ELSE IF s = "AB" THEN <<"A", "B">>
  ELSE IF s = " A " THEN <<" ", "A", " ">>
  ELSE <<s>>

\* str(v)
StrOf(v) ==
  CASE v.type = "str" -> v.value
    [] v.type = "int" -> ToString(v.value)
    [] v.type = "bool" -> (IF v.value THEN "True" ELSE "False")
    [] OTHER -> "None"

\* enumerate(opts): a list yields its elements and a string its characters;
\* a number or a boolean is not iterable and enumerate raises TypeError
Iterable(v) == v.type \in {"list", "str"}
Elements(v) ==
  IF v.type = "list" THEN v.value
  ELSE [ i \in 1..Len(Chars(v.value)) |-> StrVal(Chars(v.value)[i]) ]

\* FirstMatch stopping at the last option that matches, not the first
FirstMatch_LastHit(elems, ans) ==
  LET hits == { i \in 1..Len(elems) : Strip(StrOf(elems[i])) = Strip(StrOf(ans)) }
  IN IF hits = {} THEN -1
     ELSE (CHOOSE i \in hits : \A j \in hits : j <= i) - 1

\* the for loop over enumerate(opts): the index of the first option with
\* str(opt).strip() == str(ans).strip(), or -1 for answer_index None
FirstMatch(elems, ans) ==
  LET hits == { i \in 1..Len(elems) : Strip(StrOf(elems[i])) = Strip(StrOf(ans)) }
  IN IF hits = {} THEN -1
     ELSE (CHOOSE i \in hits : \A j \in hits : i <= j) - 1

\* The raw text of a reply, as far as parse_llm_response looks at it: whether
\* it is empty, whether it has a "[", and the blocks re.findall finds after
\* it.  A block either fails json.loads or decodes to a dict `item`.
Block(json_ok, q, opts, ans) ==
  [json_ok |-> json_ok, item |-> [Question |-> q, Options |-> opts, Answer |-> ans]]
Text(blocks) == [empty |-> FALSE, has_bracket |-> TRUE, blocks |-> blocks]
EmptyText == [empty |-> TRUE, has_bracket |-> FALSE, blocks |-> << >>]
ProseText == [empty |-> FALSE, has_bracket |-> FALSE, blocks |-> << >>]

\* the for loop over blocks from block i on
RECURSIVE ParseBlocks(_, _, _)
ParseBlocks(blocks, i, st) ==
  IF i > Len(blocks) THEN st
  ELSE
    LET q == blocks[i].item.Question
        opts == blocks[i].item.Options
        ans == blocks[i].item.Answer
    IN IF ~blocks[i].json_ok
         THEN ParseBlocks(blocks, i + 1, st)
       ELSE IF ~Truthy(q) \/ ~Truthy(opts) \/ ~Truthy(ans)
         THEN ParseBlocks(blocks, i + 1, st)
       ELSE IF ~Iterable(opts)
         THEN [st EXCEPT !.raised = TRUE]
       ELSE LET answer_index == FirstMatch(Elements(opts), ans)
            IN IF answer_index = -1
                 THEN ParseBlocks(blocks, i + 1, st)
                 ELSE ParseBlocks(blocks, i + 1,
                        [st EXCEPT !.questions =
                           Append(@, [options |-> opts, answer_index |-> answer_index])])

\* [raised, questions]: whether the call raises, and the list it returns
parse_llm_response(raw_text) ==
  IF raw_text.empty \/ ~raw_text.has_bracket
    THEN [raised |-> FALSE, questions |-> << >>]
    ELSE ParseBlocks(raw_text.blocks, 1, [raised |-> FALSE, questions |-> << >>])

\* --------------------------------------------------------- create_exam
\* One reply of the question generator to requests.get: the call raises
\* (timeout, connection error), or returns a status and a text; cands is
\* what parse_llm_response makes of the text, {options, answer_index} per
\* question.  A reply of kind "text" is a status 200 with the raw text given.
\* A reply of kind "asked" is a status 200 whose text holds as many questions
\* as the call's questionscount asked for, and `extra` more.
DefaultOptions == ListVal([ i \in 1..NumChoices |-> StrVal("o" \o ToString(i)) ])
Candidates(k) ==
  [ i \in 1..k |-> [options |-> DefaultOptions, answer_index |-> (i - 1) % NumChoices] ]
HttpReply(status, k) ==
  [kind |-> "http", status |-> status, cands |-> Candidates(k), extra |-> 0,
   text |-> EmptyText]
RaiseReply ==
  [kind |-> "raise", status |-> 0, cands |-> << >>, extra |-> 0, text |-> EmptyText]
AskedReply(extra) ==
  [kind |-> "asked", status |-> 200, cands |-> << >>, extra |-> extra, text |-> EmptyText]
TextReply(raw_text) ==
  [kind |-> "text", status |-> 200, cands |-> << >>, extra |-> 0, text |-> raw_text]

\* parse_llm_response(response.text) raises
ParseRaises(reply) == reply.kind = "text" /\ parse_llm_response(reply.text).raised

\* parse_llm_response(response.text) for a reply to a call asking batch_count
Parsed(reply, batch_count) ==
  IF reply.kind = "asked" THEN Candidates(batch_count + reply.extra)
  ELSE IF reply.kind = "text" THEN parse_llm_response(reply.text).questions
  ELSE reply.cands

\* the generator's replies to calls 1, 2, ...: `bad` replies of status 500,
\* then replies of status 200 carrying k parsed questions each
ScriptOf(bad, k) ==
  [ i \in 1..MAX_ATTEMPTS |-> IF i <= bad THEN HttpReply(500, 0) ELSE HttpReply(200, k) ]
RaiseScript == [ i \in 1..MAX_ATTEMPTS |-> RaiseReply ]

Min(a, b) == IF a <= b THEN a ELSE b

\* GenLoop giving up one attempt early
RECURSIVE GenLoop_ShortBudget(_, _, _, _, _)
GenLoop_ShortBudget(TOTAL_QUESTIONS, script, all_questions, attempts, asked) ==
  IF Len(all_questions) < TOTAL_QUESTIONS /\ attempts < MAX_ATTEMPTS - 1
    THEN LET batch_count == Min(BATCH_SIZE, TOTAL_QUESTIONS - Len(all_questions))
             reply == script[attempts + 1]
             asked1 == Append(asked, batch_count)
         IN IF reply.kind = "raise"
              THEN [raised |-> TRUE, all_questions |-> all_questions,
                    attempts |-> attempts + 1, asked |-> asked1]
            ELSE IF reply.status = 200 /\ ParseRaises(reply)
              THEN [raised |-> TRUE, all_questions |-> all_questions,
                    attempts |-> attempts + 1, asked |-> asked1]
            ELSE IF reply.status # 200 \/ Parsed(reply, batch_count) = << >>
              THEN GenLoop_ShortBudget(TOTAL_QUESTIONS, script, all_questions,
                                       attempts + 1, asked1)
            ELSE GenLoop_ShortBudget(TOTAL_QUESTIONS, script,
                                     all_questions \o Parsed(reply, batch_count),
                                     attempts + 1, asked1)
    ELSE [raised |-> FALSE, all_questions |-> all_questions, attempts |-> attempts,
          asked |-> asked]

\* GenLoop asking for a full batch in every call
RECURSIVE GenLoop_FullBatch(_, _, _, _, _)
GenLoop_FullBatch(TOTAL_QUESTIONS, script, all_questions, attempts, asked) ==
  IF Len(all_questions) < TOTAL_QUESTIONS /\ attempts < MAX_ATTEMPTS
    THEN LET batch_count == BATCH_SIZE
             reply == script[attempts + 1]
             asked1 == Append(asked, batch_count)
         IN IF reply.kind = "raise"
              THEN [raised |-> TRUE, all_questions |-> all_questions,
                    attempts |-> attempts + 1, asked |-> asked1]
            ELSE IF reply.status = 200 /\ ParseRaises(reply)
              THEN [raised |-> TRUE, all_questions |-> all_questions,
                    attempts |-> attempts + 1, asked |-> asked1]
            ELSE IF reply.status # 200 \/ Parsed(reply, batch_count) = << >>
              THEN GenLoop_FullBatch(TOTAL_QUESTIONS, script, all_questions,
                                     attempts + 1, asked1)
            ELSE GenLoop_FullBatch(TOTAL_QUESTIONS, script,
                                   all_questions \o Parsed(reply, batch_count),
                                   attempts + 1, asked1)
    ELSE [raised |-> FALSE, all_questions |-> all_questions, attempts |-> attempts,
          asked |-> asked]

\* the while loop of create_exam: [raised, all_questions, attempts] at its
\* exit, and the batch_count asked of the generator in each call
RECURSIVE GenLoop(_, _, _, _, _)
GenLoop(TOTAL_QUESTIONS, script, all_questions, attempts, asked) ==
  IF Len(all_questions) < TOTAL_QUESTIONS /\ attempts < MAX_ATTEMPTS
    THEN LET batch_count == Min(BATCH_SIZE, TOTAL_QUESTIONS - Len(all_questions))
             reply == script[attempts + 1]
             asked1 == Append(asked, batch_count)
         IN IF reply.kind = "raise"
              THEN [raised |-> TRUE, all_questions |-> all_questions,
                    attempts |-> attempts + 1, asked |-> asked1]
            ELSE IF reply.status # 200
              THEN GenLoop(TOTAL_QUESTIONS, script, all_questions, attempts + 1, asked1)
            ELSE IF ParseRaises(reply)
              THEN [raised |-> TRUE, all_questions |-> all_questions,
                    attempts |-> attempts + 1, asked |-> asked1]
            ELSE IF Parsed(reply, batch_count) = << >>
              THEN GenLoop(TOTAL_QUESTIONS, script, all_questions, attempts + 1, asked1)
            ELSE GenLoop(TOTAL_QUESTIONS, script,
                         all_questions \o Parsed(reply, batch_count), attempts + 1, asked1)
    ELSE [raised |-> FALSE, all_questions |-> all_questions, attempts |-> attempts,
          asked |-> asked]

\* the admin check passing every caller with a local user row
IsAdmin_AnyLocalUser(tok) == UsersByEmail(tok.email) # {}

\* `not db_user or not db_user.is_admin` is false
IsAdmin(tok) == \E u \in UsersByEmail(tok.email) : u.is_admin

\* what becomes of the writes of create_exam: all succeed, or db.flush() of
\* the exam row, db.commit() or db.refresh() after the commit raises
PersistOutcomes == {"ok", "flush_fails", "commit_fails", "refresh_fails"}

\* the requests.get calls of one run of the loop: what each asked for and
\* what the generator replied
GeneratorCalls(g, script) ==
  [ i \in 1..g.attempts |->
      [batch_count |-> g.asked[i], reply |-> script[i],
       parse_raised |-> script[i].kind # "raise" /\ script[i].status = 200
                          /\ ParseRaises(script[i]),
       parsed |-> IF script[i].kind = "raise" \/ script[i].status # 200
                     \/ ParseRaises(script[i])
                    THEN << >> ELSE Parsed(script[i], g.asked[i])] ]

\* create_exam keeping every accumulated question (no all_questions[:TOTAL_QUESTIONS])
create_exam_NoTruncate(tok, question_count, script, persist) ==
  /\ Len(exams) < MaxExams
  /\ IF ~IsAdmin(tok)
       THEN /\ resp' = Reply("create_exam", tok.email, 403, None,
                            [NoArg EXCEPT !.question_count = question_count],
                            NoCalls, NoBody)
            /\ UNCHANGED <<exams, questions>>
       ELSE LET g == GenLoop(question_count, script, << >>, 0, << >>)
                arg == [NoArg EXCEPT !.question_count = question_count]
                calls == [NoCalls EXCEPT !.generator = GeneratorCalls(g, script)]
                db_user == CHOOSE u \in UsersByEmail(tok.email) : TRUE
            IN IF g.raised \/ Len(g.all_questions) < question_count
                 THEN /\ resp' = Reply("create_exam", tok.email, 500, None, arg, calls, NoBody)
                      /\ UNCHANGED <<exams, questions>>
                 ELSE LET llm_questions == g.all_questions
                          new_id == ExamId(Len(exams) + 1)
                      IN /\ exams' = Append(exams,
                                [is_active |-> TRUE,
                                 question_count |-> Len(llm_questions),
                                 created_by |-> db_user.id])
                         /\ questions' = questions \o
                                [ i \in 1..Len(llm_questions) |->
                                    [exam_id |-> new_id, choices |-> llm_questions[i].options,
                                     answer_index |-> llm_questions[i].answer_index] ]
                         /\ resp' = Reply("create_exam", tok.email, 200, new_id, arg,
                                          [calls EXCEPT !.writes = "ok"], NoBody)
  /\ UNCHANGED <<users, exam_assignments, candidate_exams, lastStarted, pending, raced>>

\* create_exam without db.rollback(): the flushed exam row stays when a later
\* write raises
create_exam_NoRollback(tok, question_count, script, persist) ==
  /\ Len(exams) < MaxExams
  /\ IF ~IsAdmin(tok)
       THEN /\ resp' = Reply("create_exam", tok.email, 403, None,
                            [NoArg EXCEPT !.question_count = question_count],
                            NoCalls, NoBody)
            /\ UNCHANGED <<exams, questions>>
       ELSE LET g == GenLoop(question_count, script, << >>, 0, << >>)
                arg == [NoArg EXCEPT !.question_count = question_count]
                calls == [NoCalls EXCEPT !.generator = GeneratorCalls(g, script)]
                db_user == CHOOSE u \in UsersByEmail(tok.email) : TRUE
            IN IF g.raised \/ Len(g.all_questions) < question_count
                 THEN /\ resp' = Reply("create_exam", tok.email, 500, None, arg, calls, NoBody)
                      /\ UNCHANGED <<exams, questions>>
                 ELSE LET llm_questions == SubSeq(g.all_questions, 1, question_count)
                          new_id == ExamId(Len(exams) + 1)
                      IN /\ IF persist = "flush_fails" THEN UNCHANGED exams
                            ELSE exams' = Append(exams,
                                   [is_active |-> TRUE,
                                    question_count |-> Len(llm_questions),
                                    created_by |-> db_user.id])
                         /\ IF persist \in {"flush_fails", "commit_fails"}
                              THEN UNCHANGED questions
                              ELSE questions' = questions \o
                                     [ i \in 1..Len(llm_questions) |->
                                         [exam_id |-> new_id, choices |-> llm_questions[i].options,
                                     answer_index |-> llm_questions[i].answer_index] ]
                         /\ resp' = Reply("create_exam", tok.email,
                                          IF persist = "ok" THEN 200 ELSE 500,
                                          IF persist = "ok" THEN new_id ELSE None,
                                          arg, [calls EXCEPT !.writes = persist], NoBody)
  /\ UNCHANGED <<users, exam_assignments, candidate_exams, lastStarted, pending, raced>>

\* Everything from the while loop on runs inside try ... except Exception:
\* db.rollback(); raise HTTPException(500, detail=str(e)).  That handler
\* catches a raising requests.get, the HTTPException(500, "Could only
\* generate <n> questions after retries") and a raising flush, commit or
\* refresh alike; the rollback undoes every write not yet committed.
create_exam(tok, question_count, script, persist) ==
  /\ Len(exams) < MaxExams
  /\ IF ~IsAdmin(tok)
       THEN /\ resp' = Reply("create_exam", tok.email, 403, None,
                            [NoArg EXCEPT !.question_count = question_count],
                            NoCalls, NoBody)
            /\ UNCHANGED <<exams, questions>>
       ELSE LET g == GenLoop(question_count, script, << >>, 0, << >>)
                arg == [NoArg EXCEPT !.question_count = question_count]
                calls == [NoCalls EXCEPT !.generator = GeneratorCalls(g, script)]
                db_user == CHOOSE u \in UsersByEmail(tok.email) : TRUE
            IN IF g.raised
                 THEN /\ resp' = Reply("create_exam", tok.email, 500, None, arg, calls, NoBody)
                      /\ UNCHANGED <<exams, questions>>
               ELSE IF Len(g.all_questions) < question_count
                 THEN /\ resp' = Reply("create_exam", tok.email, 500, None, arg, calls,
                                       [NoBody EXCEPT !.partial = Len(g.all_questions)])
                      /\ UNCHANGED <<exams, questions>>
               ELSE IF persist \in {"flush_fails", "commit_fails"}
                 THEN /\ resp' = Reply("create_exam", tok.email, 500, None, arg,
                                       [calls EXCEPT !.writes = persist], NoBody)
                      /\ UNCHANGED <<exams, questions>>
                 ELSE LET llm_questions == SubSeq(g.all_questions, 1, question_count)
                          new_id == ExamId(Len(exams) + 1)
                      IN /\ exams' = Append(exams,
                                [is_active |-> TRUE,
                                 question_count |-> Len(llm_questions),
                                 created_by |-> db_user.id])
                         /\ questions' = questions \o
                                [ i \in 1..Len(llm_questions) |->
                                    [exam_id |-> new_id, choices |-> llm_questions[i].options,
                                     answer_index |-> llm_questions[i].answer_index] ]
                         /\ resp' = Reply("create_exam", tok.email,
                                          IF persist = "ok" THEN 200 ELSE 500,
                                          IF persist = "ok" THEN new_id ELSE None,
                                          arg, [calls EXCEPT !.writes = persist], NoBody)
  /\ UNCHANGED <<users, exam_assignments, candidate_exams, lastStarted, pending, raced>>

\* -------------------------------------------------- toggle_exam_status
toggle_exam_status(tok, exam_id) ==
  /\ IF ~IsAdmin(tok)
       THEN /\ resp' = Response("toggle_exam_status", tok.email, 403, None)
            /\ UNCHANGED exams
       ELSE LET found == { n \in 1..Len(exams) : ExamId(n) = exam_id }
            IN IF found = {}
                 THEN /\ resp' = Response("toggle_exam_status", tok.email, 404, None)
                      /\ UNCHANGED exams
                 ELSE LET n == CHOOSE n \in found : TRUE
                      IN /\ exams' = [exams EXCEPT ![n].is_active = ~exams[n].is_active]
                         /\ resp' = Response("toggle_exam_status", tok.email, 200, exam_id)
  /\ UNCHANGED <<users, questions, exam_assignments, candidate_exams, lastStarted, pending, raced>>

\* --------------------------------------------------------- assign_exam
\* admin_create_user / admin_set_user_password for one email
CognitoOutcomes == {"created", "exists", "error"}

\* rows `rows` of exam_assignments a query for (exam_id, email) returns
AssignmentsFor(rows, exam_id, email) ==
  { n \in 1..Len(rows) :
      rows[n].exam_id = exam_id /\ rows[n].candidate_email = email }

\* AssignLoop without the lookup of an existing assignment
RECURSIVE AssignLoop_NoDuplicateCheck(_, _, _, _, _, _, _)
AssignLoop_NoDuplicateCheck(candidate_emails, i, st, exam_id, admin_id, cognito, mail) ==
  IF i > Len(candidate_emails) THEN st
  ELSE
    LET email == Normalize(candidate_emails[i])
        known == { u \in st.users : u.email = email }
        called == IF known = {}
                    THEN [st EXCEPT !.cognito_calls =
                            Append(@, [email |-> email, outcome |-> cognito[i]])]
                    ELSE st
    IN IF known = {} /\ cognito[i] = "error"
         THEN [called EXCEPT !.failed = TRUE]
       ELSE
         LET st1 == IF known = {}
                      THEN [called EXCEPT
                              !.users = @ \cup {[id |-> email, email |-> email,
                                                 is_admin |-> FALSE]},
                              !.flushed = @ \o st.added,
                              !.added = << >>,
                              !.created_users = @ + 1]
                      ELSE st
             existing_assignment == AssignmentsFor(st1.flushed, exam_id, email)
             st2 == IF FALSE
                      THEN st1
                      ELSE [st1 EXCEPT
                              !.added = Append(@, [exam_id |-> exam_id,
                                                   candidate_email |-> email,
                                                   assigned_by |-> admin_id,
                                                   status |-> "assigned"]),
                              !.assigned_count = @ + 1,
                              !.mail_calls = Append(@, [to |-> email, ok |-> mail[i]]),
                              !.emailed_count = @ + (IF mail[i] THEN 1 ELSE 0)]
         IN AssignLoop_NoDuplicateCheck(candidate_emails, i + 1, st2, exam_id, admin_id, cognito, mail)

\* AssignLoop with a failing send_exam_assignment_email ending the request
RECURSIVE AssignLoop_MailFailureAborts(_, _, _, _, _, _, _)
AssignLoop_MailFailureAborts(candidate_emails, i, st, exam_id, admin_id, cognito, mail) ==
  IF i > Len(candidate_emails) \/ st.failed THEN st
  ELSE
    LET email == Normalize(candidate_emails[i])
        known == { u \in st.users : u.email = email }
        called == IF known = {}
                    THEN [st EXCEPT !.cognito_calls =
                            Append(@, [email |-> email, outcome |-> cognito[i]])]
                    ELSE st
    IN IF known = {} /\ cognito[i] = "error"
         THEN [called EXCEPT !.failed = TRUE]
       ELSE
         LET st1 == IF known = {}
                      THEN [called EXCEPT
                              !.users = @ \cup {[id |-> email, email |-> email,
                                                 is_admin |-> FALSE]},
                              !.flushed = @ \o st.added,
                              !.added = << >>,
                              !.created_users = @ + 1]
                      ELSE st
             existing_assignment == AssignmentsFor(st1.flushed, exam_id, email)
             st2 == IF existing_assignment # {}
                      THEN st1
                      ELSE [st1 EXCEPT
                              !.added = Append(@, [exam_id |-> exam_id,
                                                   candidate_email |-> email,
                                                   assigned_by |-> admin_id,
                                                   status |-> "assigned"]),
                              !.assigned_count = @ + 1,
                              !.mail_calls = Append(@, [to |-> email, ok |-> mail[i]]),
                              !.emailed_count = @ + (IF mail[i] THEN 1 ELSE 0),
                              !.failed = @ \/ ~mail[i]]
         IN AssignLoop_MailFailureAborts(candidate_emails, i + 1, st2, exam_id, admin_id, cognito, mail)

\* The for loop of assign_exam from its i-th email on.  The session is made
\* with autoflush=False (db.py): a query sees the committed rows and the rows
\* flushed so far (st.users, st.flushed), never the rows only added
\* (st.added); db.flush() after db.add(candidate) writes every added row.
\* cognito[i] is what admin_create_user does for the i-th email, mail[i]
\* whether send_exam_assignment_email returns for it.
RECURSIVE AssignLoop(_, _, _, _, _, _, _)
AssignLoop(candidate_emails, i, st, exam_id, admin_id, cognito, mail) ==
  IF i > Len(candidate_emails) THEN st
  ELSE
    LET email == Normalize(candidate_emails[i])
        known == { u \in st.users : u.email = email }
        called == IF known = {}
                    THEN [st EXCEPT !.cognito_calls =
                            Append(@, [email |-> email, outcome |-> cognito[i]])]
                    ELSE st
    IN IF known = {} /\ cognito[i] = "error"
         THEN [called EXCEPT !.failed = TRUE]
       ELSE
         LET st1 == IF known = {}
                      THEN [called EXCEPT
                              !.users = @ \cup {[id |-> email, email |-> email,
                                                 is_admin |-> FALSE]},
                              !.flushed = @ \o st.added,
                              !.added = << >>,
                              !.created_users = @ + 1]
                      ELSE st
             existing_assignment == AssignmentsFor(st1.flushed, exam_id, email)
             st2 == IF existing_assignment # {}
                      THEN st1
                      ELSE [st1 EXCEPT
                              !.added = Append(@, [exam_id |-> exam_id,
                                                   candidate_email |-> email,
                                                   assigned_by |-> admin_id,
                                                   status |-> "assigned"]),
                              !.assigned_count = @ + 1,
                              !.mail_calls = Append(@, [to |-> email, ok |-> mail[i]]),
                              !.emailed_count = @ + (IF mail[i] THEN 1 ELSE 0)]
         IN AssignLoop(candidate_emails, i + 1, st2, exam_id, admin_id, cognito, mail)

\* db.commit() leaves at most MaxAssignments rows in exam_assignments
AssignFits(rows) == Len(rows) <= MaxAssignments

assign_exam(tok, exam_id, candidate_emails, cognito, mail) ==
  LET arg == [NoArg EXCEPT !.exam_id = exam_id, !.candidate_emails = candidate_emails]
  IN
  /\ IF ~IsAdmin(tok)
       THEN /\ resp' = Reply("assign_exam", tok.email, 403, None, arg, NoCalls, NoBody)
            /\ UNCHANGED <<users, exam_assignments>>
       ELSE IF { n \in 1..Len(exams) : ExamId(n) = exam_id } = {}
       THEN /\ resp' = Reply("assign_exam", tok.email, 404, None, arg, NoCalls, NoBody)
            /\ UNCHANGED <<users, exam_assignments>>
       ELSE LET db_user == CHOOSE u \in UsersByEmail(tok.email) : TRUE
                st0 == [users |-> users, flushed |-> exam_assignments, added |-> << >>,
                        assigned_count |-> 0, emailed_count |-> 0, created_users |-> 0,
                        cognito_calls |-> << >>, mail_calls |-> << >>,
                        failed |-> FALSE]
                st == AssignLoop(candidate_emails, 1, st0, exam_id, db_user.id, cognito, mail)
                calls == [NoCalls EXCEPT !.cognito = st.cognito_calls,
                                         !.mail = st.mail_calls]
            IN IF st.failed
                 THEN /\ resp' = Reply("assign_exam", tok.email, 500, None, arg, calls, NoBody)
                      /\ UNCHANGED <<users, exam_assignments>>
                 ELSE /\ AssignFits(st.flushed \o st.added)
                      /\ users' = st.users
                      /\ exam_assignments' = st.flushed \o st.added
                      /\ resp' = Reply("assign_exam", tok.email, 200, None, arg, calls,
                                       [NoBody EXCEPT
                                          !.assigned_count = st.assigned_count,
                                          !.emailed_count = st.emailed_count,
                                          !.created_users = st.created_users])
  /\ UNCHANGED <<exams, questions, candidate_exams, lastStarted, pending, raced>>

\* ------------------------------------------------ the admin's listings
\* get_all_candidate_results, get_exam_assignments and the list_all_exams of
\* GET /admin/exams: the admin check, then queries only
get_all_candidate_results(tok) ==
  /\ resp' = Response("get_all_candidate_results", tok.email,
                      IF IsAdmin(tok) THEN 200 ELSE 403, None)
  /\ UNCHANGED <<users, exams, questions, exam_assignments, candidate_exams,
                 lastStarted, pending, raced>>

get_exam_assignments(tok, exam_id) ==
  /\ resp' = Reply("get_exam_assignments", tok.email,
                   IF IsAdmin(tok) THEN 200 ELSE 403, None,
                   [NoArg EXCEPT !.exam_id = exam_id], NoCalls, NoBody)
  /\ UNCHANGED <<users, exams, questions, exam_assignments, candidate_exams,
                 lastStarted, pending, raced>>

list_all_exams(tok) ==
  /\ resp' = Response("list_all_exams", tok.email,
                      IF IsAdmin(tok) THEN 200 ELSE 403, None)
  /\ UNCHANGED <<users, exams, questions, exam_assignments, candidate_exams,
                 lastStarted, pending, raced>>

\* ---------------------------------------------------------- start_exam
NullTime == 0
EmptyAnswers == [ k \in {} |-> 0 ]

\* InProgressOf with the status misspelt in the filter
InProgressOf_WrongStatus(user_id) ==
  { n \in 1..Len(candidate_exams) :
      /\ candidate_exams[n].user_id = user_id
      /\ candidate_exams[n].status = "in-progress" }

\* rows of candidate_exams with user_id = the user's and status in_progress
InProgressOf(user_id) ==
  { n \in 1..Len(candidate_exams) :
      /\ candidate_exams[n].user_id = user_id
      /\ candidate_exams[n].status = "in_progress" }

\* [q.id for q in questions of the exam], in table order
RECURSIVE QuestionIdsFrom(_, _)
QuestionIdsFrom(exam_id, n) ==
  IF n > Len(questions) THEN << >>
  ELSE (IF questions[n].exam_id = exam_id THEN <<QuestionId(n)>> ELSE << >>)
         \o QuestionIdsFrom(exam_id, n + 1)

\* lines 580-616 of start_exam: validate the exam, snapshot its questions,
\* insert the attempt, flip the assignment, commit
StartInsert(who, user_id, exam_id, asg) ==
  LET exam_obj == { n \in 1..Len(exams) : ExamId(n) = exam_id /\ exams[n].is_active }
      question_ids == QuestionIdsFrom(exam_id, 1)
  IN IF exam_obj = {}
       THEN /\ resp' = Response("start_exam", who, 404, None)
            /\ UNCHANGED <<candidate_exams, exam_assignments, lastStarted>>
     ELSE IF question_ids = << >>
       THEN /\ resp' = Response("start_exam", who, 400, None)
            /\ UNCHANGED <<candidate_exams, exam_assignments, lastStarted>>
     ELSE /\ Len(candidate_exams) < MaxCandidateExams
          /\ candidate_exams' = Append(candidate_exams,
               [user_id |-> user_id, exam_id |-> exam_id,
                question_ids |-> question_ids, answers |-> EmptyAnswers,
                status |-> "in_progress", time_elapsed |-> 0,
                ended_at |-> NullTime, score |-> 0])
          /\ exam_assignments' = [exam_assignments EXCEPT ![asg].status = "started"]
          /\ resp' = Response("start_exam", who, 200,
                              CandidateExamId(Len(candidate_exams) + 1))
          /\ lastStarted' = [lastStarted EXCEPT
                               ![who] = [id |-> CandidateExamId(Len(candidate_exams) + 1),
                                         asked |-> exam_id]]

\* start_exam looking for an in_progress attempt of the same exam only
start_exam_PerExam(tok, exam_id) ==
  /\ IF UsersByEmail(tok.email) = {}
       THEN /\ resp' = Response("start_exam", tok.email, 404, None)
            /\ UNCHANGED <<candidate_exams, exam_assignments, lastStarted>>
       ELSE LET db_user == CHOOSE u \in UsersByEmail(tok.email) : TRUE
                assignment == AssignmentsFor(exam_assignments, exam_id, db_user.email)
                existing == { n \in InProgressOf(db_user.id) :
                                candidate_exams[n].exam_id = exam_id }
            IN IF assignment = {}
                 THEN /\ resp' = Response("start_exam", tok.email, 403, None)
                      /\ UNCHANGED <<candidate_exams, exam_assignments, lastStarted>>
               ELSE IF existing # {}
                 THEN /\ \E n \in existing :
                           /\ resp' = Response("start_exam", tok.email, 200, CandidateExamId(n))
                           /\ lastStarted' = [lastStarted EXCEPT
                                                ![tok.email] = [id |-> CandidateExamId(n),
                                                                asked |-> exam_id]]
                      /\ UNCHANGED <<candidate_exams, exam_assignments>>
               ELSE \E asg \in assignment :
                      StartInsert(tok.email, db_user.id, exam_id, asg)
  /\ UNCHANGED <<users, exams, questions, pending, raced>>

\* start_exam looking for an in_progress attempt before it checks the assignment
start_exam_ExistingFirst(tok, exam_id) ==
  /\ IF UsersByEmail(tok.email) = {}
       THEN /\ resp' = Response("start_exam", tok.email, 404, None)
            /\ UNCHANGED <<candidate_exams, exam_assignments, lastStarted>>
       ELSE LET db_user == CHOOSE u \in UsersByEmail(tok.email) : TRUE
                assignment == AssignmentsFor(exam_assignments, exam_id, db_user.email)
                existing == InProgressOf(db_user.id)
            IN IF existing # {}
                 THEN /\ \E n \in existing :
                           /\ resp' = Response("start_exam", tok.email, 200, CandidateExamId(n))
                           /\ lastStarted' = [lastStarted EXCEPT
                                                ![tok.email] = [id |-> CandidateExamId(n),
                                                                asked |-> exam_id]]
                      /\ UNCHANGED <<candidate_exams, exam_assignments>>
               ELSE IF assignment = {}
                 THEN /\ resp' = Response("start_exam", tok.email, 403, None)
                      /\ UNCHANGED <<candidate_exams, exam_assignments, lastStarted>>
               ELSE \E asg \in assignment :
                      StartInsert(tok.email, db_user.id, exam_id, asg)
  /\ UNCHANGED <<users, exams, questions, pending, raced>>

\* start_exam handled without interleaving
start_exam(tok, exam_id) ==
  /\ IF UsersByEmail(tok.email) = {}
       THEN /\ resp' = Response("start_exam", tok.email, 404, None)
            /\ UNCHANGED <<candidate_exams, exam_assignments, lastStarted>>
       ELSE LET db_user == CHOOSE u \in UsersByEmail(tok.email) : TRUE
                assignment == AssignmentsFor(exam_assignments, exam_id, db_user.email)
                existing == InProgressOf(db_user.id)
            IN IF assignment = {}
                 THEN /\ resp' = Response("start_exam", tok.email, 403, None)
                      /\ UNCHANGED <<candidate_exams, exam_assignments, lastStarted>>
               ELSE IF existing # {}
                 THEN /\ \E n \in existing :
                           /\ resp' = Response("start_exam", tok.email, 200, CandidateExamId(n))
                           /\ lastStarted' = [lastStarted EXCEPT
                                                ![tok.email] = [id |-> CandidateExamId(n),
                                                                asked |-> exam_id]]
                      /\ UNCHANGED <<candidate_exams, exam_assignments>>
               ELSE \E asg \in assignment :
                      StartInsert(tok.email, db_user.id, exam_id, asg)
  /\ UNCHANGED <<users, exams, questions, pending, raced>>

\* start_exam up to its lookup of an in_progress attempt (lines 552-578), as
\* request r of two requests served at the same time: it answers at once,
\* or goes on to the insert with what it read
start_lookup(r, tok, exam_id) ==
  /\ ~pending[r].busy
  /\ IF UsersByEmail(tok.email) = {}
       THEN /\ resp' = Response("start_exam", tok.email, 404, None)
            /\ UNCHANGED <<pending, lastStarted>>
       ELSE LET db_user == CHOOSE u \in UsersByEmail(tok.email) : TRUE
                assignment == AssignmentsFor(exam_assignments, exam_id, db_user.email)
                existing == InProgressOf(db_user.id)
            IN IF assignment = {}
                 THEN /\ resp' = Response("start_exam", tok.email, 403, None)
                      /\ UNCHANGED <<pending, lastStarted>>
               ELSE IF existing # {}
                 THEN /\ \E n \in existing :
                           /\ resp' = Response("start_exam", tok.email, 200, CandidateExamId(n))
                           /\ lastStarted' = [lastStarted EXCEPT
                                                ![tok.email] = [id |-> CandidateExamId(n),
                                                                asked |-> exam_id]]
                      /\ UNCHANGED pending
               ELSE /\ \E asg \in assignment :
                         pending' = [pending EXCEPT ![r] =
                                       [busy |-> TRUE, who |-> tok.email,
                                        user_id |-> db_user.id, exam_id |-> exam_id,
                                        asg |-> asg, overtaken |-> FALSE]]
                    /\ UNCHANGED <<resp, lastStarted>>
  /\ UNCHANGED <<users, exams, questions, exam_assignments, candidate_exams, raced>>

\* the rest of start_exam for request r (lines 580-616).  A request of the
\* same user still between its lookup and its commit is overtaken by this
\* insert: it read the table before the row was there.
start_commit(r) ==
  /\ pending[r].busy
  /\ StartInsert(pending[r].who, pending[r].user_id, pending[r].exam_id, pending[r].asg)
  /\ LET inserted == Len(candidate_exams') > Len(candidate_exams)
     IN /\ pending' = [ q \in DOMAIN pending |->
                          IF q = r THEN Idle
                          ELSE IF /\ inserted
                                  /\ pending[q].busy
                                  /\ pending[q].user_id = pending[r].user_id
                            THEN [pending[q] EXCEPT !.overtaken = TRUE]
                          ELSE pending[q] ]
        /\ raced' = IF inserted /\ pending[r].overtaken
                      THEN raced \cup {pending[r].who}
                      ELSE raced
  /\ UNCHANGED <<users, exams, questions>>

\* --------------------------------------------- the attempt's handlers
CandidateExamIds == { CandidateExamId(n) : n \in 1..MaxCandidateExams }

\* OwnAttempt without the user_id filter
OwnAttempt_AnyUser(tok, candidate_exam_id) ==
  { n \in 1..Len(candidate_exams) : CandidateExamId(n) = candidate_exam_id }

\* filter(CandidateExam.id == candidate_exam_id, CandidateExam.user_id == db_user.id)
OwnAttempt(tok, candidate_exam_id) ==
  { n \in 1..Len(candidate_exams) :
      /\ CandidateExamId(n) = candidate_exam_id
      /\ \E u \in UsersByEmail(tok.email) : candidate_exams[n].user_id = u.id }

get_exam(tok, candidate_exam_id) ==
  /\ IF OwnAttempt(tok, candidate_exam_id) = {}
       THEN resp' = Response("get_exam", tok.email, 404, None)
       ELSE resp' = Response("get_exam", tok.email, 200, candidate_exam_id)
  /\ UNCHANGED <<users, exams, questions, exam_assignments, candidate_exams,
                 lastStarted, pending, raced>>

\* str(question_id) of a client-sent id: a string as it is, a number in decimal
PyStr(v) == IF v.type = "int" THEN ToString(v.value) ELSE v.value

\* answers[key] = selected_index on a copy of the dict
DictSet(answers, key, selected_index) ==
  [ k \in DOMAIN answers \cup {key} |-> IF k = key THEN selected_index ELSE answers[k] ]

\* save_answer putting the attempt it writes to back in progress
save_answer_Reopens(tok, candidate_exam_id, question_id, selected_index, time_elapsed) ==
  /\ IF OwnAttempt(tok, candidate_exam_id) = {}
       THEN /\ resp' = Response("save_answer", tok.email, 404, None)
            /\ UNCHANGED candidate_exams
       ELSE \E n \in OwnAttempt(tok, candidate_exam_id) :
              /\ candidate_exams' = [candidate_exams EXCEPT
                   ![n].answers = DictSet(@, PyStr(question_id), selected_index),
                   ![n].time_elapsed = time_elapsed,
                   ![n].status = "in_progress"]
              /\ resp' = Response("save_answer", tok.email, 200, candidate_exam_id)
  /\ UNCHANGED <<users, exams, questions, exam_assignments, lastStarted, pending, raced>>

save_answer(tok, candidate_exam_id, question_id, selected_index, time_elapsed) ==
  /\ IF OwnAttempt(tok, candidate_exam_id) = {}
       THEN /\ resp' = Response("save_answer", tok.email, 404, None)
            /\ UNCHANGED candidate_exams
       ELSE \E n \in OwnAttempt(tok, candidate_exam_id) :
              /\ candidate_exams' = [candidate_exams EXCEPT
                   ![n].answers = DictSet(@, PyStr(question_id), selected_index),
                   ![n].time_elapsed = time_elapsed]
              /\ resp' = Response("save_answer", tok.email, 200, candidate_exam_id)
  /\ UNCHANGED <<users, exams, questions, exam_assignments, lastStarted, pending, raced>>

\* BulkLoop adding each item's time_elapsed to the attempt's
RECURSIVE BulkLoop_AddsTime(_, _, _)
BulkLoop_AddsTime(answers_payload, i, st) ==
  IF i > Len(answers_payload) THEN st
  ELSE LET item == answers_payload[i]
       IN IF ~item.well_formed
            THEN [st EXCEPT !.raised = TRUE]
            ELSE BulkLoop_AddsTime(answers_payload, i + 1,
                   [st EXCEPT !.answers = DictSet(@, PyStr(item.question_id),
                                                  item.selected_index),
                              !.time_elapsed = @ + item.time_elapsed])

\* BulkLoop keeping the largest time_elapsed seen
RECURSIVE BulkLoop_MaxTime(_, _, _)
BulkLoop_MaxTime(answers_payload, i, st) ==
  IF i > Len(answers_payload) THEN st
  ELSE LET item == answers_payload[i]
       IN IF ~item.well_formed
            THEN [st EXCEPT !.raised = TRUE]
            ELSE BulkLoop_MaxTime(answers_payload, i + 1,
                   [st EXCEPT !.answers = DictSet(@, PyStr(item.question_id),
                                                  item.selected_index),
                              !.time_elapsed = IF item.time_elapsed > @
                                                 THEN item.time_elapsed ELSE @])

\* the for loop of bulk_save_answers from item i on, on the loaded row; an
\* item without one of its three keys raises KeyError
RECURSIVE BulkLoop(_, _, _)
BulkLoop(answers_payload, i, st) ==
  IF i > Len(answers_payload) THEN st
  ELSE LET item == answers_payload[i]
       IN IF ~item.well_formed
            THEN [st EXCEPT !.raised = TRUE]
            ELSE BulkLoop(answers_payload, i + 1,
                   [st EXCEPT !.answers = DictSet(@, PyStr(item.question_id),
                                                  item.selected_index),
                              !.time_elapsed = item.time_elapsed])

\* bulk_save_answers writing what the loop did before an item raised
bulk_save_answers_KeepsPartial(tok, candidate_exam_id, answers_payload) ==
  /\ IF OwnAttempt(tok, candidate_exam_id) = {}
       THEN /\ resp' = Response("bulk_save_answers", tok.email, 404, None)
            /\ UNCHANGED candidate_exams
       ELSE \E n \in OwnAttempt(tok, candidate_exam_id) :
              LET st == BulkLoop(answers_payload, 1,
                          [answers |-> candidate_exams[n].answers,
                           time_elapsed |-> candidate_exams[n].time_elapsed,
                           raised |-> FALSE])
              IN IF st.raised
                   THEN /\ resp' = Reply("bulk_save_answers", tok.email, 500, None,
                                         [NoArg EXCEPT !.answers_payload = answers_payload],
                                         NoCalls, NoBody)
                        /\ candidate_exams' = [candidate_exams EXCEPT
                              ![n].answers = st.answers,
                              ![n].time_elapsed = st.time_elapsed]
                   ELSE /\ candidate_exams' = [candidate_exams EXCEPT
                              ![n].answers = st.answers,
                              ![n].time_elapsed = st.time_elapsed]
                        /\ resp' = Reply("bulk_save_answers", tok.email, 200,
                                         candidate_exam_id,
                                         [NoArg EXCEPT !.answers_payload = answers_payload],
                                         NoCalls, NoBody)
  /\ UNCHANGED <<users, exams, questions, exam_assignments, lastStarted, pending, raced>>

\* the row is changed in the session only; a KeyError from an item ends the
\* request before db.commit() and get_db closes the session
bulk_save_answers(tok, candidate_exam_id, answers_payload) ==
  /\ IF OwnAttempt(tok, candidate_exam_id) = {}
       THEN /\ resp' = Response("bulk_save_answers", tok.email, 404, None)
            /\ UNCHANGED candidate_exams
       ELSE \E n \in OwnAttempt(tok, candidate_exam_id) :
              LET st == BulkLoop(answers_payload, 1,
                          [answers |-> candidate_exams[n].answers,
                           time_elapsed |-> candidate_exams[n].time_elapsed,
                           raised |-> FALSE])
              IN IF st.raised
                   THEN /\ resp' = Reply("bulk_save_answers", tok.email, 500, None,
                                         [NoArg EXCEPT !.answers_payload = answers_payload],
                                         NoCalls, NoBody)
                        /\ UNCHANGED candidate_exams
                   ELSE /\ candidate_exams' = [candidate_exams EXCEPT
                              ![n].answers = st.answers,
                              ![n].time_elapsed = st.time_elapsed]
                        /\ resp' = Reply("bulk_save_answers", tok.email, 200,
                                         candidate_exam_id,
                                         [NoArg EXCEPT !.answers_payload = answers_payload],
                                         NoCalls, NoBody)
  /\ UNCHANGED <<users, exams, questions, exam_assignments, lastStarted, pending, raced>>

\* resume_exam without the status filter
resume_exam_AnyStatus(tok) ==
  /\ LET exam == { n \in 1..Len(candidate_exams) :
                     \E u \in UsersByEmail(tok.email) : candidate_exams[n].user_id = u.id }
     IN IF exam = {}
          THEN resp' = Response("resume_exam", tok.email, 404, None)
          ELSE \E n \in exam :
                 resp' = Response("resume_exam", tok.email, 200, CandidateExamId(n))
  /\ UNCHANGED <<users, exams, questions, exam_assignments, candidate_exams,
                 lastStarted, pending, raced>>

resume_exam(tok) ==
  /\ LET exam == UNION { InProgressOf(u.id) : u \in UsersByEmail(tok.email) }
     IN IF exam = {}
          THEN resp' = Response("resume_exam", tok.email, 404, None)
          ELSE \E n \in exam :
                 resp' = Response("resume_exam", tok.email, 200, CandidateExamId(n))
  /\ UNCHANGED <<users, exams, questions, exam_assignments, candidate_exams,
                 lastStarted, pending, raced>>

\* exam.compute_score(db, candidate_exam): the number of ids in question_ids
\* whose question exists and whose recorded answer is its answer_index
RECURSIVE compute_score(_, _, _)
compute_score(question_ids, answers, i) ==
  IF i > Len(question_ids) THEN 0
  ELSE LET qid == question_ids[i]
           question == { n \in 1..Len(questions) : QuestionId(n) = qid }
           hit == /\ question # {}
                  /\ qid \in DOMAIN answers
                  /\ \E n \in question : answers[qid] = questions[n].answer_index
       IN (IF hit THEN 1 ELSE 0) + compute_score(question_ids, answers, i + 1)

\* the latest ended_at on record: utcnow() never reads earlier than it
LatestTime ==
  LET ts == { candidate_exams[n].ended_at : n \in 1..Len(candidate_exams) } \cup {1}
  IN CHOOSE t \in ts : \A o \in ts : o <= t

\* submit_exam without the call of compute_score
submit_exam_NoScore(tok, candidate_exam_id, final_time_elapsed, utcnow) ==
  /\ utcnow >= LatestTime
  /\ IF OwnAttempt(tok, candidate_exam_id) = {}
       THEN /\ resp' = Response("submit_exam", tok.email, 404, None)
            /\ UNCHANGED <<candidate_exams, lastStarted>>
       ELSE \E n \in OwnAttempt(tok, candidate_exam_id) :
              /\ candidate_exams' = [candidate_exams EXCEPT
                   ![n].time_elapsed = final_time_elapsed,
                   ![n].status = "completed",
                   ![n].ended_at = utcnow]
              /\ resp' = Response("submit_exam", tok.email, 200, candidate_exam_id)
              /\ lastStarted' = [lastStarted EXCEPT ![tok.email] = NotStarted]
  /\ UNCHANGED <<users, exams, questions, exam_assignments, pending, raced>>

submit_exam(tok, candidate_exam_id, final_time_elapsed, utcnow) ==
  /\ utcnow >= LatestTime
  /\ IF OwnAttempt(tok, candidate_exam_id) = {}
       THEN /\ resp' = Response("submit_exam", tok.email, 404, None)
            /\ UNCHANGED <<candidate_exams, lastStarted>>
       ELSE \E n \in OwnAttempt(tok, candidate_exam_id) :
              /\ candidate_exams' = [candidate_exams EXCEPT
                   ![n].time_elapsed = final_time_elapsed,
                   ![n].status = "completed",
                   ![n].ended_at = utcnow,
                   ![n].score = compute_score(candidate_exams[n].question_ids,
                                              candidate_exams[n].answers, 1)]
              /\ resp' = Response("submit_exam", tok.email, 200, candidate_exam_id)
              /\ lastStarted' = [lastStarted EXCEPT ![tok.email] = NotStarted]
  /\ UNCHANGED <<users, exams, questions, exam_assignments, pending, raced>>

get_result(tok, candidate_exam_id) ==
  /\ IF OwnAttempt(tok, candidate_exam_id) = {}
       THEN resp' = Response("get_result", tok.email, 404, None)
       ELSE resp' = Response("get_result", tok.email, 200, candidate_exam_id)
  /\ UNCHANGED <<users, exams, questions, exam_assignments, candidate_exams,
                 lastStarted, pending, raced>>

\* ------------------------------------------------------ specifications
SeqsUpTo(S, n) == UNION { [1..k -> S] : k \in 0..n }

\* a bulk-save item: {question_id, selected_index, time_elapsed}, or a dict
\* that lacks one of the three keys
Item(q, s, t) ==
  [well_formed |-> TRUE, question_id |-> q, selected_index |-> s, time_elapsed |-> t]
MalformedItem ==
  [well_formed |-> FALSE, question_id |-> [type |-> "int", value |-> 0],
   selected_index |-> 0, time_elapsed |-> 0]

StrId(n) == [type |-> "str", value |-> QuestionId(n)]
IntId(n) == [type |-> "int", value |-> n]

\* the requests of a candidate working through one question, and of a
\* client that sends the number 1 where a question id is expected
FewScripts == {ScriptOf(0, MaxQuestions), ScriptOf(MAX_ATTEMPTS, 0), RaiseScript}

\* Requests handled one at a time, each to its commit.  A candidate answers
\* the first question of the first exam, by save-answer or by a one-item
\* bulk-save; the admin toggles the first exam.
Next ==
  \/ \E tok \in Tokens : sync_user(tok)
  \/ \E tok \in Tokens, script \in FewScripts : create_exam(tok, MaxQuestions, script, "ok")
  \/ \E tok \in Tokens : toggle_exam_status(tok, ExamId(1))
  \/ \E tok \in Tokens, exam_id \in ExamIds, email \in Emails, cognito \in CognitoOutcomes :
       /\ Len(exam_assignments) < MaxAssignments
       /\ assign_exam(tok, exam_id, <<email>>, <<cognito>>, <<TRUE>>)
  \/ \E tok \in Tokens, exam_id \in ExamIds : start_exam(tok, exam_id)
  \/ \E tok \in Tokens, id \in CandidateExamIds : save_answer(tok, id, StrId(1), 0, 1)
  \/ \E tok \in Tokens, id \in CandidateExamIds,
        answers_payload \in { <<Item(StrId(1), 0, 1)>>, <<MalformedItem>> } :
       bulk_save_answers(tok, id, answers_payload)
  \/ \E tok \in Tokens : resume_exam(tok)
  \/ \E tok \in Tokens, id \in CandidateExamIds, utcnow \in 1..MaxNow :
       submit_exam(tok, id, 1, utcnow)

Spec == Init /\ [][Next]_vars

\* Two start requests served at the same time: each does its lookup and its
\* insert as two steps, and the other requests are served in between.
NextRace ==
  \/ \E tok \in Tokens : sync_user(tok)
  \/ \E tok \in Tokens : create_exam(tok, MaxQuestions, ScriptOf(0, MaxQuestions), "ok")
  \/ \E tok \in Tokens, exam_id \in ExamIds, email \in Emails :
       /\ Len(exam_assignments) < MaxAssignments
       /\ assign_exam(tok, exam_id, <<email>>, <<"created">>, <<TRUE>>)
  \/ \E r \in 1..MaxRequests, tok \in Tokens, exam_id \in ExamIds : start_lookup(r, tok, exam_id)
  \/ \E r \in 1..MaxRequests : start_commit(r)
  \/ \E tok \in Tokens, id \in CandidateExamIds, utcnow \in 1..MaxNow :
       submit_exam(tok, id, 1, utcnow)

SpecRace == Init /\ [][NextRace]_vars


\* One candidate working through one attempt of the first exam, with every
\* question id of the exam and the number 1 as question_id, every option as
\* selected_index, and bulk-save payloads of up to MaxItems items.
AnswerIds == { StrId(n) : n \in 1..MaxQuestions } \cup { IntId(1) }
BulkItems ==
  { Item(StrId(1), 0, 0), Item(StrId(1), 1, 1), Item(StrId(2), 1, 0), Item(IntId(1), 0, 1) }
Payloads == SeqsUpTo(BulkItems, MaxItems)
\* payloads whose last item lacks a key
BadPayloads == { Append(p, MalformedItem) : p \in SeqsUpTo(BulkItems, MaxItems - 1) }

NextAnswers ==
  \/ \E tok \in Tokens : sync_user(tok)
  \/ \E tok \in Tokens :
       exams = << >> /\ create_exam(tok, MaxQuestions, ScriptOf(0, MaxQuestions), "ok")
  \/ \E tok \in Tokens :
       /\ Len(exam_assignments) < MaxAssignments
       /\ assign_exam(tok, ExamId(1), <<AliceEmail>>, <<"created">>, <<TRUE>>)
  \/ candidate_exams = << >> /\ start_exam(AliceToken, ExamId(1))
  \/ \E id \in CandidateExamIds, q \in AnswerIds,
        s \in 0..(NumChoices - 1), t \in 0..MaxElapsed :
       save_answer(AliceToken, id, q, s, t)
  \/ \E id \in CandidateExamIds, answers_payload \in Payloads \cup { <<MalformedItem>> } :
       bulk_save_answers(AliceToken, id, answers_payload)
  \/ \E id \in CandidateExamIds, t \in 0..MaxElapsed, utcnow \in 1..MaxNow :
       submit_exam(AliceToken, id, t, utcnow)

SpecAnswers == Init /\ [][NextAnswers]_vars

\* The admin asking for exams of 1 to MaxTarget questions from generators of
\* every temper: `bad` failing calls first and then k questions a call or
\* what was asked for plus `extra`, a call that raises, texts that parse
\* to nothing, and writes that fail.
GenCounts == {1, BATCH_SIZE, BATCH_SIZE + 1, MaxTarget}

\* `bad` replies of status 500, then what each call asks for and `extra` more
AskedScript(bad, extra) ==
  [ i \in 1..MAX_ATTEMPTS |-> IF i <= bad THEN HttpReply(500, 0) ELSE AskedReply(extra) ]

\* call j raises; the other calls return what they ask for
RaiseAt(j) ==
  [ i \in 1..MAX_ATTEMPTS |-> IF i = j THEN RaiseReply ELSE AskedReply(0) ]

\* status 500 and status 200 with a text that parses to nothing, in turn
NothingScript ==
  [ i \in 1..MAX_ATTEMPTS |-> IF i % 2 = 1 THEN HttpReply(500, 0) ELSE HttpReply(200, 0) ]

GenScripts ==
  { ScriptOf(bad, k) : bad \in {0, MAX_ATTEMPTS - 1, MAX_ATTEMPTS}, k \in {0, 1, BATCH_SIZE + 2} }
    \cup { AskedScript(bad, extra) : bad \in {0, MAX_ATTEMPTS - 1}, extra \in {0, 3} }
    \cup { RaiseAt(j) : j \in {1, 2} }
    \cup { NothingScript }

NextGen ==
  \/ \E tok \in Tokens : sync_user(tok)
  \/ \E tok \in Tokens, question_count \in GenCounts, script \in GenScripts :
       create_exam(tok, question_count, script, "ok")
  \/ \E tok \in Tokens, question_count \in GenCounts, persist \in PersistOutcomes :
       create_exam(tok, question_count, AskedScript(1, 3), persist)

SpecGen == Init /\ [][NextGen]_vars

\* The admin's requests and what candidates do with what was assigned: assign
\* calls of one or two emails as typed (an email twice, or once as it is
\* stored and once in capitals with blanks around), an identity provider that
\* creates the user, has it already or fails, a notification sender that
\* sends or fails; every admin handler called by every token.
EmailLists ==
  { <<AliceEmail>>, <<AliceRaw>>, <<AdminEmail>>,
    <<AliceEmail, AliceEmail>>, <<AliceEmail, AliceRaw>>, <<AliceEmail, AdminEmail>> }

\* what the identity provider and the notification sender do for the first
\* and the second email of one assign call
Collaborators ==
  { [cognito |-> <<"created", "created">>, mail |-> <<TRUE, TRUE>>],
    [cognito |-> <<"exists", "exists">>, mail |-> <<FALSE, FALSE>>],
    [cognito |-> <<"created", "error">>, mail |-> <<FALSE, TRUE>>],
    [cognito |-> <<"error", "created">>, mail |-> <<TRUE, FALSE>>] }

NextAssign ==
  \/ \E tok \in Tokens : sync_user(tok)
  \/ \E tok \in Tokens : create_exam(tok, 1, ScriptOf(0, 1), "ok")
  \/ \E tok \in Tokens : toggle_exam_status(tok, ExamId(1))
  \/ \E tok \in Tokens, exam_id \in ExamIds, candidate_emails \in EmailLists,
        c \in Collaborators :
       IsAdmin(tok) /\ assign_exam(tok, exam_id, candidate_emails, c.cognito, c.mail)
  \/ \E tok \in Tokens :
       ~IsAdmin(tok) /\ assign_exam(tok, ExamId(1), <<AliceEmail>>, <<"created">>, <<TRUE>>)
  \/ \E tok \in Tokens : get_all_candidate_results(tok)
  \/ \E tok \in Tokens : get_exam_assignments(tok, ExamId(1))
  \/ \E tok \in Tokens : list_all_exams(tok)
  \/ \E tok \in Tokens, exam_id \in ExamIds : start_exam(tok, exam_id)
  \/ \E tok \in Tokens, id \in CandidateExamIds : submit_exam(tok, id, 1, 1)

SpecAssign == Init /\ [][NextAssign]_vars

\* Identities made by their first sync and identities made by an assign
\* call: the admin assigns exams to a candidate and to a colleague with an
\* admin-domain email, each of whom may sync before or after that, and both
\* holders of admin-domain emails try the admin handlers.
NextIdentity ==
  \/ \E tok \in Tokens \cup {BossToken} : sync_user(tok)
  \/ \E tok \in Tokens \cup {BossToken} : create_exam(tok, 1, ScriptOf(0, 1), "ok")
  \/ \E tok \in Tokens \cup {BossToken} : toggle_exam_status(tok, ExamId(1))
  \/ \E tok \in Tokens \cup {BossToken}, exam_id \in ExamIds,
        email \in {AliceEmail, AliceRaw, BossEmail}, cognito \in CognitoOutcomes :
       assign_exam(tok, exam_id, <<email>>, <<cognito>>, <<TRUE>>)
  \/ \E tok \in Tokens \cup {BossToken} : list_all_exams(tok)

SpecIdentity == Init /\ [][NextIdentity]_vars

\* Assign calls for two emails in which the identity provider creates the
\* first candidate, or the first is known already, and fails for the second
\* after the first has been notified.
NotifyLists ==
  { <<AliceEmail>>, <<AdminEmail, AliceEmail>>,
    <<AliceEmail, BossEmail>>, <<BossEmail, AliceRaw>> }

NotifyCollaborators ==
  { [cognito |-> <<"created", "created">>, mail |-> <<TRUE, TRUE>>],
    [cognito |-> <<"created", "error">>, mail |-> <<TRUE, TRUE>>],
    [cognito |-> <<"exists", "error">>, mail |-> <<FALSE, TRUE>>] }

NextNotify ==
  \/ \E tok \in Tokens : sync_user(tok)
  \/ \E tok \in Tokens : exams = << >> /\ create_exam(tok, 1, ScriptOf(0, 1), "ok")
  \/ \E tok \in Tokens, candidate_emails \in NotifyLists, c \in NotifyCollaborators :
       assign_exam(tok, ExamId(1), candidate_emails, c.cognito, c.mail)

SpecNotify == Init /\ [][NextNotify]_vars

\* Two users, each assigned the exam and each with attempts of their own,
\* calling the five attempt endpoints with the ids of the attempts that exist.
ExistingIds == { CandidateExamId(n) : n \in 1..Len(candidate_exams) }

NextIsolation ==
  \/ \E tok \in Tokens : sync_user(tok)
  \/ \E tok \in Tokens :
       exams = << >> /\ create_exam(tok, MaxQuestions, ScriptOf(0, MaxQuestions), "ok")
  \/ \E tok \in Tokens, email \in {AliceEmail, AdminEmail} :
       /\ Len(exam_assignments) < MaxAssignments
       /\ assign_exam(tok, ExamId(1), <<email>>, <<"created">>, <<TRUE>>)
  \/ \E tok \in Tokens : start_exam(tok, ExamId(1))
  \/ \E tok \in Tokens, id \in ExistingIds : get_exam(tok, id)
  \/ \E tok \in Tokens, id \in ExistingIds : save_answer(tok, id, StrId(1), 1, 1)
  \/ \E tok \in Tokens, id \in ExistingIds :
       bulk_save_answers(tok, id, <<Item(StrId(2), 1, 1)>>)
  \/ \E tok \in Tokens, id \in ExistingIds, utcnow \in 1..MaxNow :
       submit_exam(tok, id, 1, utcnow)
  \/ \E tok \in Tokens, id \in ExistingIds : get_result(tok, id)

SpecIsolation == Init /\ [][NextIsolation]_vars

\* A candidate saving answers one at a time and in bulk, with payloads that
\* name a question twice and payloads whose last item lacks a key.
SaveIds == { StrId(1), IntId(1) }

NextBulk ==
  \/ \E tok \in Tokens : sync_user(tok)
  \/ \E tok \in Tokens :
       exams = << >> /\ create_exam(tok, MaxQuestions, ScriptOf(0, MaxQuestions), "ok")
  \/ \E tok \in Tokens :
       /\ exam_assignments = << >>
       /\ assign_exam(tok, ExamId(1), <<AliceEmail>>, <<"created">>, <<TRUE>>)
  \/ candidate_exams = << >> /\ start_exam(AliceToken, ExamId(1))
  \/ \E id \in CandidateExamIds, q \in SaveIds,
        s \in 0..(NumChoices - 1), t \in 0..MaxElapsed :
       save_answer(AliceToken, id, q, s, t)
  \/ \E id \in CandidateExamIds, answers_payload \in Payloads \cup BadPayloads :
       bulk_save_answers(AliceToken, id, answers_payload)

SpecBulk == Init /\ [][NextBulk]_vars

\* The generator answering with texts of up to MaxBlocks blocks: well-formed
\* questions, blocks that fail to decode, that lack a field, whose answer is
\* no option (or differs in case), whose options are a string, a number or a
\* boolean, whose options and answer are numbers.
Question1 == StrVal("What?")

BlocksIn ==
  { Block(TRUE, Question1, ListVal(<<StrVal("A"), StrVal("B"), StrVal("C")>>), StrVal("B")),
    Block(TRUE, Question1, ListVal(<<StrVal("B"), StrVal("A"), StrVal(" A ")>>), StrVal(" A ")),
    Block(FALSE, NoneVal, NoneVal, NoneVal),
    Block(TRUE, Question1, ListVal(<<StrVal("A"), StrVal("B")>>), NoneVal),
    Block(TRUE, Question1, ListVal(<<StrVal("A"), StrVal("B")>>), StrVal("C")),
    Block(TRUE, Question1, ListVal(<<StrVal("A")>>), StrVal("a")),
    Block(TRUE, StrVal(""), ListVal(<<StrVal("A")>>), StrVal("A")),
    Block(TRUE, Question1, StrVal("AB"), StrVal("A")),
    Block(TRUE, Question1, IntVal(5), StrVal("A")),
    Block(TRUE, Question1, IntVal(0), StrVal("A")),
    Block(TRUE, Question1, BoolVal(TRUE), StrVal("A")),
    Block(TRUE, Question1, ListVal(<<IntVal(1), IntVal(2)>>), IntVal(2)) }

Texts == { EmptyText, ProseText } \cup { Text(blocks) : blocks \in SeqsUpTo(BlocksIn, MaxBlocks) }

\* every call is answered with the same text
TextScript(raw_text) == [ i \in 1..MAX_ATTEMPTS |-> TextReply(raw_text) ]

\* the first call is answered with the text, the later calls with what they ask for
TextThenAsked(raw_text) ==
  [ i \in 1..MAX_ATTEMPTS |-> IF i = 1 THEN TextReply(raw_text) ELSE AskedReply(0) ]

NextParse ==
  \/ \E tok \in Tokens : sync_user(tok)
  \/ \E tok \in Tokens, raw_text \in Texts :
       exams = << >> /\ create_exam(tok, MaxBlocks, TextScript(raw_text), "ok")
  \/ \E tok \in Tokens, raw_text \in Texts :
       /\ exams = << >> /\ tok.email = AdminEmail
       /\ create_exam(tok, MaxBlocks + 1, TextThenAsked(raw_text), "ok")

SpecParse == Init /\ [][NextParse]_vars

\* ------------------------------------------------------------- claims
Rows == 1..Len(candidate_exams)

\* the ids of the local users whose email is `email`
IdsOf(email) == { u.id : u \in { v \in users : v.email = email } }

\* the attempts of the user with that email whose status is in_progress
Active(email) ==
  { n \in Rows : /\ candidate_exams[n].user_id \in IdsOf(email)
                 /\ candidate_exams[n].status = "in_progress" }

\* C1: with requests handled one at a time, every user has at most one
\* attempt with status in_progress.
C1_OneInProgressPerUser ==
  \A u \in users :
    Cardinality({ n \in Rows : /\ candidate_exams[n].user_id = u.id
                               /\ candidate_exams[n].status = "in_progress" }) <= 1

\* a user started an attempt, submitted it and started again
C1_Witness ==
  \E n, m \in Rows :
    /\ candidate_exams[n].user_id = candidate_exams[m].user_id
    /\ candidate_exams[n].status = "completed"
    /\ candidate_exams[m].status = "in_progress"

\* C2: a user gets two in_progress attempts when, and only when, one of the
\* user's starts did its lookup before another of them committed its insert
\* and committed after it; with two starts served at once that happens.
C2_TwoInProgressByRace ==
  \A e \in Emails : Cardinality(Active(e)) >= 2 => e \in raced

\* two in_progress attempts of one user
C2_Witness ==
  \E e \in Emails : Cardinality(Active(e)) >= 2

\* C3: a start by a caller whose last successful start was not followed by a
\* submit, on an exam assigned to the caller, returns the id that start
\* returned, inserts no attempt and changes no attempt or assignment, also
\* when it asks for another exam than the attempt's.
C3_StartTwiceSameAttempt ==
  [][ \A tok \in Tokens, exam_id \in ExamIds :
        ( /\ lastStarted[tok.email].id # None
          /\ \E n \in 1..Len(exam_assignments) :
               /\ exam_assignments[n].exam_id = exam_id
               /\ exam_assignments[n].candidate_email = tok.email
          /\ start_exam(tok, exam_id) )
        => /\ resp'.code = 200
           /\ resp'.id = lastStarted[tok.email].id
           /\ UNCHANGED <<candidate_exams, exam_assignments>> ]_vars

\* the second start asked for another exam than the one of the attempt it returned
C3_Witness ==
  \E e \in Emails, n \in Rows :
    /\ resp.op = "start_exam" /\ resp.who = e /\ resp.code = 200
    /\ resp.id = CandidateExamId(n)
    /\ lastStarted[e].id = CandidateExamId(n)
    /\ lastStarted[e].asked # candidate_exams[n].exam_id

\* C4: an attempt's status only moves in_progress -> completed / timed_out,
\* and a completed or timed_out attempt keeps its status whatever is called.
C4_TerminalStatus ==
  [][ /\ Len(candidate_exams') >= Len(candidate_exams)
      /\ \A n \in Rows :
           /\ candidate_exams[n].status \in {"completed", "timed_out"}
                => candidate_exams'[n].status = candidate_exams[n].status
           /\ candidate_exams'[n].status # candidate_exams[n].status
                => /\ candidate_exams[n].status = "in_progress"
                   /\ candidate_exams'[n].status \in {"completed", "timed_out"}
      /\ \A n \in 1..Len(candidate_exams') :
           n \notin Rows => candidate_exams'[n].status = "in_progress" ]_vars

\* a save-answer was served on a completed attempt, which stayed completed
C4_Witness ==
  \E n \in Rows :
    /\ candidate_exams[n].status = "completed"
    /\ resp.op = "save_answer" /\ resp.code = 200 /\ resp.id = CandidateExamId(n)

\* C5: once an attempt is submitted, no save_answer, bulk_save or submit
\* changes its answers, time_elapsed, ended_at or score.
C5_SubmitIrrevocable ==
  [][ \A n \in Rows :
        candidate_exams[n].status = "completed"
          => /\ candidate_exams'[n].answers = candidate_exams[n].answers
             /\ candidate_exams'[n].time_elapsed = candidate_exams[n].time_elapsed
             /\ candidate_exams'[n].ended_at = candidate_exams[n].ended_at
             /\ candidate_exams'[n].score = candidate_exams[n].score ]_vars

\* the elements of a sequence
Range(seq) == { seq[i] : i \in 1..Len(seq) }

\* the questions an attempt answered as their answer_index says
Correct(row) ==
  { q \in Range(row.question_ids) \cap DOMAIN row.answers :
      \E n \in 1..Len(questions) :
        QuestionId(n) = q /\ questions[n].answer_index = row.answers[q] }

\* C6: the score a submit leaves on the attempt is the number of questions of
\* its question_ids answered with their answer_index; unanswered questions
\* and answers under other keys count nothing, so it is within
\* 0..len(question_ids).
C6_ScoreCountsMatches ==
  [][ (resp'.op = "submit_exam" /\ resp'.code = 200)
        => \A n \in 1..Len(candidate_exams') :
             CandidateExamId(n) = resp'.id
               => /\ candidate_exams'[n].score = Cardinality(Correct(candidate_exams'[n]))
                  /\ candidate_exams'[n].score >= 0
                  /\ candidate_exams'[n].score <= Len(candidate_exams'[n].question_ids) ]_vars

\* question_ids = [q1, q2, q3] with keys 0, 1, 2 and answers = {q1: 0}, and
\* one more answer under a key that is no question id, was submitted and scored 1
C6_Witness ==
  \E n \in Rows :
    /\ resp.op = "submit_exam" /\ resp.code = 200 /\ resp.id = CandidateExamId(n)
    /\ candidate_exams[n].question_ids = <<QuestionId(1), QuestionId(2), QuestionId(3)>>
    /\ \A i \in 1..3 : questions[i].answer_index = i - 1
    /\ DOMAIN candidate_exams[n].answers = {QuestionId(1), "1"}
    /\ candidate_exams[n].answers[QuestionId(1)] = 0
    /\ candidate_exams[n].score = 1

\* C8: the keys of every attempt's answers are among its question_ids.
C8_AnswerKeysInQuestionIds ==
  \A n \in Rows :
    DOMAIN candidate_exams[n].answers \subseteq Range(candidate_exams[n].question_ids)

\* C10: for every attempt and every well-formed payload, bulk-save applied
\* to what bulk-save left gives the same answers and time_elapsed again.
C10_BulkSaveIdempotent ==
  \A n \in Rows, answers_payload \in Payloads :
    LET before == [answers |-> candidate_exams[n].answers,
                   time_elapsed |-> candidate_exams[n].time_elapsed,
                   raised |-> FALSE]
        once == BulkLoop(answers_payload, 1, before)
        twice == BulkLoop(answers_payload, 1, once)
    IN /\ ~once.raised
       /\ twice = once

\* a bulk-save was served on an attempt that holds answers under two keys
C10_Witness ==
  \E n \in Rows :
    /\ resp.op = "bulk_save_answers" /\ resp.code = 200 /\ resp.id = CandidateExamId(n)
    /\ Cardinality(DOMAIN candidate_exams[n].answers) >= 2
    /\ candidate_exams[n].time_elapsed > 0

\* C7: a start by a local user on an exam with no assignment row for the
\* user's email answers 403, inserts no attempt and changes no assignment.
C7_StartNotAssigned ==
  [][ \A tok \in Tokens, exam_id \in ExamIds :
        ( /\ IdsOf(tok.email) # {}
          /\ ~ \E n \in 1..Len(exam_assignments) :
                 /\ exam_assignments[n].exam_id = exam_id
                 /\ exam_assignments[n].candidate_email = tok.email
          /\ start_exam(tok, exam_id) )
        => /\ resp'.code = 403
           /\ UNCHANGED <<candidate_exams, exam_assignments>> ]_vars

\* a user with an attempt in progress was refused an exam not assigned to them
C7_Witness ==
  /\ resp.op = "start_exam" /\ resp.code = 403
  /\ Active(resp.who) # {}

\* C9: resume answers with the caller's in_progress attempt when there is
\* one (the one the caller's last start returned, if no submit followed it),
\* with 404 when there is none, and writes nothing.
C9_Resume ==
  [][ resp'.op = "resume_exam"
        => /\ UNCHANGED db
           /\ IF Active(resp'.who) = {}
                THEN resp'.code = 404
                ELSE /\ resp'.code = 200
                     /\ \E n \in Active(resp'.who) : resp'.id = CandidateExamId(n)
           /\ lastStarted[resp'.who].id # None
                => resp'.id = lastStarted[resp'.who].id ]_vars

\* resume was refused to a user whose only attempt is submitted
C9_Witness ==
  /\ resp.op = "resume_exam" /\ resp.code = 404
  /\ \E n \in Rows : candidate_exams[n].user_id \in IdsOf(resp.who)
  /\ \A n \in Rows : candidate_exams[n].user_id \in IdsOf(resp.who)
                       => candidate_exams[n].status = "completed"

\* the questions the generator calls of one request yielded, in call order
RECURSIVE Accumulated(_)
Accumulated(gen) ==
  IF gen = << >> THEN << >>
  ELSE Accumulated(SubSeq(gen, 1, Len(gen) - 1)) \o gen[Len(gen)].parsed

\* the rows of a questions table that reference the exam, in table order
QuestionsOf(tbl, exam_id) == SelectSeq(tbl, LAMBDA q : q.exam_id = exam_id)

\* C11: when create_exam answers 200 to a request for N questions, one exam
\* row was added with question_count = N, exactly N question rows reference
\* the new exam id, and they are the first N questions the generator calls
\* accumulated, in that order, however many more the calls yielded; the
\* rows of the other exams are as before.
C11_CreateExactlyN ==
  [][ (resp'.op = "create_exam" /\ resp'.code = 200)
        => LET N == resp'.arg.question_count
               acc == Accumulated(resp'.calls.generator)
               n == Len(exams')
               rows == QuestionsOf(questions', ExamId(n))
           IN /\ n = Len(exams) + 1
              /\ resp'.id = ExamId(n)
              /\ SubSeq(exams', 1, Len(exams)) = exams
              /\ exams'[n].question_count = N
              /\ Len(rows) = N
              /\ Len(acc) >= N
              /\ [ i \in 1..N |-> [options |-> rows[i].choices,
                                    answer_index |-> rows[i].answer_index] ]
                   = SubSeq(acc, 1, N)
              /\ SubSeq(questions', 1, Len(questions)) = questions
              /\ Len(questions') = Len(questions) + N ]_vars

\* a second exam was created from several calls that together yielded more
\* questions than were asked for
C11_Witness ==
  /\ resp.op = "create_exam" /\ resp.code = 200
  /\ Len(exams) = 2
  /\ Len(resp.calls.generator) >= 2
  /\ Len(Accumulated(resp.calls.generator)) > resp.arg.question_count
  /\ Len(QuestionsOf(questions, resp.id)) = resp.arg.question_count

\* C12: create_exam never makes more than MAX_ATTEMPTS generator calls; when
\* it is asked for at least one question and every call it makes returns a
\* non-200 status or a text that parses to no question, it makes exactly
\* MAX_ATTEMPTS calls, answers 500 naming 0 generated questions and writes
\* nothing.
C12_LoopBounded ==
  [][ resp'.op = "create_exam"
        => LET gen == resp'.calls.generator
           IN /\ Len(gen) <= MAX_ATTEMPTS
              /\ ( /\ resp'.code # 403
                   /\ resp'.arg.question_count > 0
                   /\ \A i \in 1..Len(gen) :
                        gen[i].reply.kind # "raise" /\ gen[i].parsed = << >> )
                   => /\ Len(gen) = MAX_ATTEMPTS
                      /\ resp'.code = 500
                      /\ resp'.body.partial = 0
                      /\ UNCHANGED db ]_vars

\* a request all of whose calls came back with status 500 or with a text
\* that parsed to nothing, some of each, was refused after MAX_ATTEMPTS calls
C12_Witness ==
  /\ resp.op = "create_exam" /\ resp.code = 500
  /\ Len(resp.calls.generator) = MAX_ATTEMPTS
  /\ \A i \in 1..MAX_ATTEMPTS : resp.calls.generator[i].parsed = << >>
  /\ \E i \in 1..MAX_ATTEMPTS : resp.calls.generator[i].reply.status = 200
  /\ \E i \in 1..MAX_ATTEMPTS : resp.calls.generator[i].reply.status = 500
  /\ resp.body.partial = 0

\* ceil(a / b)
Ceil(a, b) == (a + b - 1) \div b

\* every call of the request returned status 200 and a text with at least
\* (exactly, when `exactly` is TRUE) as many questions as it asked for
Obliging(gen, exactly) ==
  \A i \in 1..Len(gen) :
    /\ gen[i].reply.kind # "raise"
    /\ gen[i].reply.status = 200
    /\ IF exactly THEN Len(gen[i].parsed) = gen[i].batch_count
                  ELSE Len(gen[i].parsed) >= gen[i].batch_count

C14_TransportFailureSoft ==
  [][ (resp'.op = "create_exam" /\ resp'.code # 403)
        => LET gen == resp'.calls.generator
           IN /\ \A i \in 1..Len(gen) :
                   (gen[i].reply.kind = "raise" /\ i < MAX_ATTEMPTS) => Len(gen) > i
              /\ ( /\ \E i \in 1..Len(gen) : gen[i].reply.kind = "raise"
                   /\ \A i \in 1..Len(gen) :
                        \/ gen[i].reply.kind = "raise"
                        \/ Len(gen[i].parsed) >= gen[i].batch_count
                   /\ Len(exams') = Len(exams) )
                   => Len(gen) = MAX_ATTEMPTS ]_vars

\* C15: a create_exam request either adds one exam row and exactly as many
\* question rows bound to it as were asked for, or leaves every table as it
\* was; it leaves them as they were when the attempts run out short of the
\* asked number, and when db.flush() of the exam row or the db.commit()
\* after it raises.
C15_CreateAllOrNothing ==
  [][ resp'.op = "create_exam"
        => LET N == resp'.arg.question_count
               n == Len(exams')
           IN /\ \/ UNCHANGED db
                 \/ /\ n = Len(exams) + 1
                    /\ SubSeq(exams', 1, Len(exams)) = exams
                    /\ exams'[n].question_count = N
                    /\ Len(questions') = Len(questions) + N
                    /\ SubSeq(questions', 1, Len(questions)) = questions
                    /\ \A i \in (Len(questions) + 1)..Len(questions') :
                         questions'[i].exam_id = ExamId(n)
                    /\ UNCHANGED <<users, exam_assignments, candidate_exams>>
              /\ resp'.body.partial >= 0
                   => resp'.code = 500 /\ resp'.body.partial < N /\ UNCHANGED db
              /\ resp'.calls.writes \in {"flush_fails", "commit_fails"}
                   => resp'.code = 500 /\ UNCHANGED db ]_vars

\* with one exam stored, a request whose commit failed after the flush of
\* its exam row left that one exam and its questions only
C15_Witness ==
  /\ resp.op = "create_exam" /\ resp.code = 500
  /\ resp.calls.writes = "commit_fails"
  /\ Len(exams) = 1
  /\ Len(questions) = exams[1].question_count

\* a request that ran out of attempts with some questions, short of the
\* asked number, stored nothing
C15_WitnessExhausted ==
  /\ resp.op = "create_exam" /\ resp.code = 500
  /\ resp.body.partial > 0
  /\ exams = << >> /\ questions = << >>

\* the rows of exam_assignments for the exam and the (normalized) email
PairRows(rows, exam_id, email) ==
  { n \in 1..Len(rows) :
      rows[n].exam_id = exam_id /\ Normalize(rows[n].candidate_email) = email }

\* C16: exam_assignments never holds two rows with the same exam_id and the
\* same normalized candidate_email.
C16_UniqueAssignment ==
  \A exam_id \in ExamIds, email \in Emails :
    Cardinality(PairRows(exam_assignments, exam_id, email)) <= 1

\* the normalized emails of a candidate_emails list
Named(candidate_emails) ==
  { Normalize(candidate_emails[i]) : i \in 1..Len(candidate_emails) }

\* C17: an assign call that names an email already assigned to the exam makes
\* no identity-provider call and sends no notification for that email and
\* leaves the rows of the pair as they were, status included: one row
\* before, one row after.  A call that names only such emails answers 200
\* with assigned_count, emailed_count and created_users 0 and writes nothing.
C17_AssignAgainIdempotent ==
  [][ (resp'.op = "assign_exam" /\ resp'.code \notin {403, 404})
        => LET exam_id == resp'.arg.exam_id
               named == Named(resp'.arg.candidate_emails)
               again == { e \in named : PairRows(exam_assignments, exam_id, e) # {} }
           IN /\ \A e \in again :
                   /\ PairRows(exam_assignments', exam_id, e)
                        = PairRows(exam_assignments, exam_id, e)
                   /\ \A n \in PairRows(exam_assignments, exam_id, e) :
                        exam_assignments'[n] = exam_assignments[n]
                   /\ \A k \in 1..Len(resp'.calls.mail) : resp'.calls.mail[k].to # e
                   /\ \A k \in 1..Len(resp'.calls.cognito) : resp'.calls.cognito[k].email # e
                   /\ Cardinality(PairRows(exam_assignments, exam_id, e)) = 1
                        => Cardinality(PairRows(exam_assignments', exam_id, e)) = 1
              /\ (named # {} /\ again = named)
                   => /\ resp'.code = 200
                      /\ resp'.body.assigned_count = 0
                      /\ resp'.body.emailed_count = 0
                      /\ resp'.body.created_users = 0
                      /\ resp'.calls = NoCalls
                      /\ UNCHANGED db ]_vars

\* an exam was assigned again to a candidate who had started it: the call
\* reported nothing assigned and the one row of the pair is still started
C17_Witness ==
  /\ resp.op = "assign_exam" /\ resp.code = 200
  /\ resp.body.assigned_count = 0
  /\ resp.arg.candidate_emails # << >>
  /\ \A e \in Named(resp.arg.candidate_emails) :
       /\ Cardinality(PairRows(exam_assignments, resp.arg.exam_id, e)) = 1
       /\ \A n \in PairRows(exam_assignments, resp.arg.exam_id, e) :
            exam_assignments[n].status = "started"

\* C18: an assign call by an admin for an existing exam in which no
\* identity-provider call fails answers 200 whether or not its notifications
\* could be sent; every notification attempted, sent or failed, is for a row
\* the call added with status assigned, assigned_count counts the added rows,
\* emailed_count the notifications sent, so emailed_count <= assigned_count.
C18_MailFailureNotFatal ==
  [][ resp'.op = "assign_exam"
        => LET mails == resp'.calls.mail
               exam_id == resp'.arg.exam_id
               added == (Len(exam_assignments) + 1)..Len(exam_assignments')
           IN /\ resp'.body.emailed_count <= resp'.body.assigned_count
              /\ ( /\ \E u \in users : u.email = resp'.who /\ u.is_admin
                   /\ \E n \in 1..Len(exams) : ExamId(n) = exam_id
                   /\ \A k \in 1..Len(resp'.calls.cognito) :
                        resp'.calls.cognito[k].outcome # "error" )
                   => /\ resp'.code = 200
                      /\ resp'.body.assigned_count = Cardinality(added)
                      /\ Len(mails) = Cardinality(added)
                      /\ resp'.body.emailed_count
                           = Cardinality({ k \in 1..Len(mails) : mails[k].ok })
                      /\ SubSeq(exam_assignments', 1, Len(exam_assignments)) = exam_assignments
                      /\ \A k \in 1..Len(mails) :
                           \E n \in added :
                             /\ exam_assignments'[n].exam_id = exam_id
                             /\ exam_assignments'[n].candidate_email = mails[k].to
                             /\ exam_assignments'[n].status = "assigned" ]_vars

\* an assign call whose notification failed answered 200 and its row is stored
C18_Witness ==
  /\ resp.op = "assign_exam" /\ resp.code = 200
  /\ resp.body.assigned_count = 1
  /\ resp.body.emailed_count = 0
  /\ Len(resp.calls.mail) = 1
  /\ ~resp.calls.mail[1].ok
  /\ PairRows(exam_assignments, resp.arg.exam_id, resp.calls.mail[1].to) # {}

\* the attempts at the exam by the user with that email
AttemptsFor(tbl, exam_id, email) ==
  { n \in 1..Len(tbl) : tbl[n].exam_id = exam_id /\ tbl[n].user_id \in IdsOf(email) }

\* C19: with requests handled one at a time, an assignment's status is
\* started exactly when an attempt exists for its candidate and exam; it
\* only ever changes from assigned to started, in a start call that inserts
\* the first attempt of that candidate at that exam, and later submits and
\* starts leave it started.
C19_AssignmentStatus ==
  [][ /\ Len(exam_assignments') >= Len(exam_assignments)
      /\ \A n \in 1..Len(exam_assignments') :
           exam_assignments'[n].status = "started"
             <=> AttemptsFor(candidate_exams', exam_assignments'[n].exam_id,
                             exam_assignments'[n].candidate_email) # {}
      /\ \A n \in 1..Len(exam_assignments) :
           exam_assignments'[n].status # exam_assignments[n].status
             => /\ exam_assignments[n].status = "assigned"
                /\ exam_assignments'[n].status = "started"
                /\ resp'.op = "start_exam" /\ resp'.code = 200
                /\ Len(candidate_exams') = Len(candidate_exams) + 1
                /\ AttemptsFor(candidate_exams, exam_assignments[n].exam_id,
                               exam_assignments[n].candidate_email) = {} ]_vars

\* the handlers behind the admin check
AdminOps ==
  { "create_exam", "assign_exam", "toggle_exam_status", "list_all_exams",
    "get_all_candidate_results", "get_exam_assignments" }

\* C20: every admin handler called with a token whose email has no local
\* user row, or one with is_admin false, answers 403, calls neither the
\* generator nor the identity provider nor the notification sender, and
\* writes nothing.
C20_AdminOnly ==
  [][ ( /\ resp'.op \in AdminOps
        /\ ~ \E u \in users : u.email = resp'.who /\ u.is_admin )
        => /\ resp'.code = 403
           /\ resp'.calls = NoCalls
           /\ UNCHANGED db ]_vars

\* a candidate with a local user row asked to be assigned an existing exam
\* and was refused
C20_Witness ==
  /\ resp.op = "assign_exam" /\ resp.code = 403
  /\ \E u \in users : u.email = resp.who /\ ~u.is_admin
  /\ \E n \in 1..Len(exams) : ExamId(n) = resp.arg.exam_id
  /\ exam_assignments = << >>

\* C21: every user row has is_admin true exactly when its email is of the
\* admin domain, whether sync_user or assign_exam made the row, and no
\* request removes a user row or changes its email or is_admin.
C21_IsAdminFromDomain ==
  [][ /\ \A u \in users' : u.is_admin <=> EndsWithAdminDomain(u.email)
      /\ \A u \in users : u \in users' ]_vars

\* C22: parse_llm_response raises for no text, so no create_exam request is
\* ended by the parsing of a reply: a request answered 500 either ran out of
\* attempts, or had a generator call or a write raise.
C22_ParseNeverRaises ==
  [][ resp'.op = "create_exam"
        => LET gen == resp'.calls.generator
           IN /\ \A i \in 1..Len(gen) : ~gen[i].parse_raised
              /\ resp'.code = 500
                   => \/ resp'.body.partial >= 0
                      \/ \E i \in 1..Len(gen) : gen[i].reply.kind = "raise"
                      \/ resp'.calls.writes \notin {"none", "ok"} ]_vars

\* The 1-based positions of the options of a block that equal its answer once
\* both are turned into text and stripped of surrounding whitespace.
Matching(block) ==
  LET elems == Elements(block.item.Options)
  IN { i \in 1..Len(elems) : Strip(StrOf(elems[i])) = Strip(StrOf(block.item.Answer)) }

\* A block yields a question when it decodes, has its three fields, and an
\* option equals the answer.
Emits(block) ==
  /\ block.json_ok
  /\ Truthy(block.item.Question) /\ Truthy(block.item.Options) /\ Truthy(block.item.Answer)
  /\ Iterable(block.item.Options)
  /\ Matching(block) # {}

FirstOf(S) == CHOOSE i \in S : \A j \in S : i <= j

\* What a text yields: its question-yielding blocks in order, each with the
\* 0-based position of the first option that equals the answer.
Emitted(raw_text) ==
  LET kept == SelectSeq(raw_text.blocks, Emits)
  IN [ i \in 1..Len(kept) |->
         [options |-> kept[i].item.Options, answer_index |-> FirstOf(Matching(kept[i])) - 1] ]

\* C23: every candidate question a generator text yields, and every Question
\* row persisted, has 0 <= answer_index < number of choices; the choice at
\* that index equals the answer once both are trimmed and is the first such
\* choice; a block whose answer matches no choice yields nothing; the
\* questions come in the order of their blocks.
C23_AnswerIndexInRange ==
  [][ resp'.op = "create_exam"
        => LET gen == resp'.calls.generator
           IN /\ \A i \in 1..Len(gen) :
                   (gen[i].reply.kind = "text" /\ ~gen[i].parse_raised)
                     => /\ gen[i].parsed = Emitted(gen[i].reply.text)
                        /\ \A k \in 1..Len(gen[i].parsed) :
                             LET c == gen[i].parsed[k]
                             IN /\ c.answer_index >= 0
                                /\ c.answer_index < Len(Elements(c.options))
              /\ \A k \in 1..Len(questions') :
                   /\ questions'[k].answer_index >= 0
                   /\ questions'[k].answer_index < Len(Elements(questions'[k].choices)) ]_vars

\* An exam was created from a text of two blocks: the first names an answer
\* that is none of its options, the second has two options equal to the
\* answer once trimmed and yields the first of them.
C23_Witness ==
  /\ resp.op = "create_exam" /\ resp.code = 200
  /\ \E i \in 1..Len(resp.calls.generator) :
       LET call == resp.calls.generator[i]
       IN /\ call.reply.kind = "text"
          /\ Len(call.reply.text.blocks) = 2
          /\ call.reply.text.blocks[1].json_ok
          /\ Iterable(call.reply.text.blocks[1].item.Options)
          /\ Truthy(call.reply.text.blocks[1].item.Answer)
          /\ Matching(call.reply.text.blocks[1]) = {}
          /\ Cardinality(Matching(call.reply.text.blocks[2])) = 2
          /\ Len(call.parsed) = 1
          /\ call.parsed[1].answer_index = 1
  /\ \E k \in 1..Len(questions) :
       /\ questions[k].answer_index = 1
       /\ Elements(questions[k].choices)[2] = StrVal("A")

\* what save_answer does to the row of an attempt
SaveOne(row, item) ==
  [row EXCEPT !.answers = DictSet(@, PyStr(item.question_id), item.selected_index),
              !.time_elapsed = item.time_elapsed]

\* save_answer applied to the items of a payload from item i on, in order
RECURSIVE SavedInOrder(_, _, _)
SavedInOrder(row, answers_payload, i) ==
  IF i > Len(answers_payload) THEN row
  ELSE SavedInOrder(SaveOne(row, answers_payload[i]), answers_payload, i + 1)

\* C24: a bulk-save of items i1..in leaves the attempt as save_answer applied
\* to i1, ..., in in that order leaves it: a later item for a question
\* overwrites an earlier one, the other keys are untouched, time_elapsed is
\* the last item's, and an empty list changes nothing.
C24_BulkIsSavesInOrder ==
  [][ /\ (resp'.op = "save_answer" /\ resp'.code = 200)
           => \A q \in SaveIds, s \in 0..(NumChoices - 1), t \in 0..MaxElapsed :
                save_answer(AliceToken, resp'.id, q, s, t)
                  => \E n \in Rows :
                       /\ CandidateExamId(n) = resp'.id
                       /\ candidate_exams' =
                            [candidate_exams EXCEPT ![n] = SaveOne(@, Item(q, s, t))]
      /\ (resp'.op = "bulk_save_answers" /\ resp'.code = 200)
           => LET answers_payload == resp'.arg.answers_payload
              IN \E n \in Rows :
                   /\ CandidateExamId(n) = resp'.id
                   /\ candidate_exams' =
                        [candidate_exams EXCEPT ![n] = SavedInOrder(@, answers_payload, 1)]
                   /\ answers_payload = << >> => UNCHANGED candidate_exams
                   /\ answers_payload # << >>
                        => candidate_exams'[n].time_elapsed =
                             answers_payload[Len(answers_payload)].time_elapsed
                   /\ \A k \in DOMAIN candidate_exams[n].answers :
                        (\A i \in 1..Len(answers_payload) :
                            PyStr(answers_payload[i].question_id) # k)
                          => /\ k \in DOMAIN candidate_exams'[n].answers
                             /\ candidate_exams'[n].answers[k] = candidate_exams[n].answers[k] ]_vars

\* a bulk-save of two items for the same question, the first with the larger
\* time_elapsed, was served on an attempt that holds another answer too: the
\* second item's index and time_elapsed are what the attempt holds
C24_Witness ==
  /\ resp.op = "bulk_save_answers" /\ resp.code = 200
  /\ LET answers_payload == resp.arg.answers_payload
     IN /\ Len(answers_payload) = 2
        /\ PyStr(answers_payload[1].question_id) = PyStr(answers_payload[2].question_id)
        /\ answers_payload[1].selected_index # answers_payload[2].selected_index
        /\ answers_payload[1].time_elapsed > answers_payload[2].time_elapsed
        /\ \E n \in Rows :
             /\ CandidateExamId(n) = resp.id
             /\ Cardinality(DOMAIN candidate_exams[n].answers) >= 2
             /\ candidate_exams[n].answers[PyStr(answers_payload[2].question_id)]
                  = answers_payload[2].selected_index
             /\ candidate_exams[n].time_elapsed = answers_payload[2].time_elapsed

\* C25: a bulk-save whose payload holds an item without one of its keys
\* fails, and the attempt keeps the answers and time_elapsed it had: none of
\* the items before the malformed one is applied.
C25_BulkSaveAtomic ==
  [][ ( /\ resp'.op = "bulk_save_answers"
        /\ \E k \in 1..Len(resp'.arg.answers_payload) :
             ~resp'.arg.answers_payload[k].well_formed )
        => /\ resp'.code = 500
           /\ UNCHANGED candidate_exams ]_vars

\* a bulk-save of a well-formed item followed by a malformed one has failed,
\* and the attempt holds neither the first item's answer nor its time_elapsed
C25_Witness ==
  /\ resp.op = "bulk_save_answers" /\ resp.code = 500
  /\ LET answers_payload == resp.arg.answers_payload
     IN /\ Len(answers_payload) = 2
        /\ answers_payload[1].well_formed
        /\ ~answers_payload[2].well_formed
        /\ \E n \in Rows :
             /\ candidate_exams[n].status = "in_progress"
             /\ PyStr(answers_payload[1].question_id) \notin DOMAIN candidate_exams[n].answers
             /\ candidate_exams[n].time_elapsed # answers_payload[1].time_elapsed

\* the attempts with this id that belong to a user other than the caller's
OthersAttempt(tok, id) ==
  { n \in Rows :
      /\ CandidateExamId(n) = id
      /\ \A u \in users : u.email = tok.email => u.id # candidate_exams[n].user_id }

\* the step is one of the five attempt requests, made by tok for this id
AttemptRequest(tok, id) ==
  \/ get_exam(tok, id)
  \/ save_answer(tok, id, StrId(1), 1, 1)
  \/ bulk_save_answers(tok, id, <<Item(StrId(2), 1, 1)>>)
  \/ \E utcnow \in 1..MaxNow : submit_exam(tok, id, 1, utcnow)
  \/ get_result(tok, id)

\* C26: get_exam, save_answer, bulk-save, submit and get_result made with the
\* id of another user's attempt answer 404 and change no attempt; an attempt
\* changes only in a save, bulk-save or submit of the user whose id it carries.
C26_AttemptsIsolated ==
  [][ /\ resp'.op \in {"get_exam", "save_answer", "bulk_save_answers",
                       "submit_exam", "get_result"}
           => \A tok \in Tokens, id \in ExistingIds :
                (OthersAttempt(tok, id) # {} /\ AttemptRequest(tok, id))
                  => /\ resp'.code = 404
                     /\ UNCHANGED candidate_exams
      /\ \A n \in Rows :
           candidate_exams'[n] # candidate_exams[n]
             => /\ resp'.op \in {"save_answer", "bulk_save_answers", "submit_exam"}
                /\ resp'.code = 200
                /\ resp'.id = CandidateExamId(n)
                /\ \E u \in users :
                     u.email = resp'.who /\ u.id = candidate_exams[n].user_id ]_vars

\* a user with no attempt of their own was refused the submit of an attempt
\* that exists (every request names an existing attempt), and every attempt
\* is still in progress with no answer saved
C26_Witness ==
  /\ resp.op = "submit_exam" /\ resp.code = 404
  /\ Rows # {}
  /\ \E u \in users : u.email = resp.who
  /\ \A n \in Rows :
       /\ \A u \in users : u.email = resp.who => u.id # candidate_exams[n].user_id
       /\ candidate_exams[n].status = "in_progress"
       /\ candidate_exams[n].answers = EmptyAnswers

\* C27: every notification sent during an assign call is for an assignment
\* row that is persisted when the call ends; a call that fails with 500
\* because the identity provider fails for a later email persists no
\* assignment and no identity and has notified no candidate.
C27_NotifiedOnlyPersisted ==
  [][ resp'.op = "assign_exam"
        => LET sent == { i \in 1..Len(resp'.calls.mail) : resp'.calls.mail[i].ok }
           IN /\ \A i \in sent :
                   \E n \in 1..Len(exam_assignments') :
                     /\ exam_assignments'[n].exam_id = resp'.arg.exam_id
                     /\ exam_assignments'[n].candidate_email = resp'.calls.mail[i].to
              /\ resp'.code = 500
                   => /\ UNCHANGED <<users, exam_assignments>>
                      /\ sent = {} ]_vars

====
